---- MODULE Spec2Model ----
(***************************************************************************)
(* A model of libosmium's random-access layer over OSM PBF container       *)
(* files (osmium/io/pbf_input_randomaccess.hpp): the scan that builds the  *)
(* block index table, and the on-demand decode of one block.               *)
(*                                                                         *)
(* A container file is described the way the scanner sees it: a sequence   *)
(* of blocks, each a 4-byte length prefix, a BlobHeader message of as many *)
(* bytes as the prefix says, and a body of as many bytes as the message's  *)
(* datasize field says, followed by the file's size (a file cut short has  *)
(* a size smaller than the end of its last block).  Every byte file has    *)
(* exactly one such description up to the first block the scanner refuses. *)
(* Block bodies are far too long to be held byte by byte (up to 20 MiB):   *)
(* a read yields the range of the file it covers, and the contents of a    *)
(* range are looked up in the description.                                 *)
(***************************************************************************)
EXTENDS Integers, Sequences, FiniteSets, TLC

VARIABLES
    file,            \* the container file: [blocks, size]
    pc,              \* where the table's life stands: see PcSet
    file_size,       \* the constructor's local file_size
    offset,          \* the constructor's local offset
    err,             \* what() of the exception in flight or last thrown
    m_block_starts,  \* PbfBlockIndexTable::m_block_starts
    m_fd,            \* PbfBlockIndexTable::m_fd: [open, pos], the descriptor
                     \* and the read/seek cursor of its open file description
    result,          \* outcome of the latest get_parsed_block call
    returned,        \* history: <<block_index, read_metadata, buffer>> of
                     \* every call that returned since the file last changed
    repeated,        \* history: the latest call returned, and a call with
                     \* its index and flags had returned before it
    shared,          \* the workers call get_parsed_block on one table
                     \* (TRUE) or each on a table of its own (FALSE)
    tables,          \* the workers' tables: [m_fd, m_block_starts] each
    calls,           \* each worker's get_parsed_block call: see NoCall
    m_buffer,        \* osmium::memory::Buffer: the bytes written to it
    stack,           \* the builders that are open, the outermost first
    closed,          \* history: the Items whose builder has been closed
    last_op          \* the latest builder operation and how it ended

\* the variables of the workers and of the builders
wvars == <<shared, tables, calls>>

bvars == <<m_buffer, stack, closed, last_op>>

vars == <<file, pc, file_size, offset, err, m_block_starts, m_fd, result,
          returned, repeated, wvars, bvars>>

(***************************************************************************)
(* Program constants.                                                      *)
(***************************************************************************)
max_small_blob_header_size == 64

max_block_size == 20 * 1024 * 1024

(***************************************************************************)
(* Bounds of the model.                                                    *)
(***************************************************************************)
\* data blocks after the header block in the files of InitScan
MaxDataBlocks == 2

\* data blocks in the files of Init
MaxAccessBlocks == 2

\* the number of workers that call get_parsed_block at the same time
MaxWorkers == 2

(***************************************************************************)
(* Exception messages (osmium::pbf_error unless said otherwise).           *)
(***************************************************************************)
NoError == "none"

ErrEofSize == "unexpected EOF in blob header size"

ErrSmallSize == "invalid small BlobHeader size (> max_small_blob_header_size)"

ErrEofHeader == "unexpected EOF in blob header"

ErrDataSize == "PBF format error: BlobHeader.datasize missing or zero."

ErrType == "blob does not have expected type (OSMHeader in first blob, OSMData in following blobs)"

ErrBlockSize == "invalid Block size (> max_block_size)"

ErrFileSize == "file either grew, or otherwise did not have expected size (perhaps 32-bit truncation?)"

ErrEofBlock == "unexpected EOF"

\* thrown by the block decoder (PBFDataBlobDecoder) on a blob it cannot decode
ErrDecode == "PBF error: blob could not be decoded"

(***************************************************************************)
(* uint32_t values are held as their four bytes, most significant first:   *)
(* the values of a length prefix range over all of 0 .. 2^32 - 1.          *)
(***************************************************************************)
Byte == 0..255

RECURSIVE BitOr(_, _)
BitOr(a, b) ==
    IF a = 0 THEN b
    ELSE IF b = 0 THEN a
    ELSE (IF a % 2 = 1 \/ b % 2 = 1 THEN 1 ELSE 0) + 2 * BitOr(a \div 2, b \div 2)

\* v | w
U32Or(v, w) == <<BitOr(v[1], w[1]), BitOr(v[2], w[2]), BitOr(v[3], w[3]), BitOr(v[4], w[4])>>

\* w << (8 * n) in 32 bits, n in 0..3
RECURSIVE U32Shl8(_, _)
U32Shl8(w, n) == IF n = 0 THEN w ELSE U32Shl8(<<w[2], w[3], w[4], 0>>, n - 1)

\* static_cast<uint32_t>(c) of a char holding byte c: where char is a signed
\* type (implementation-defined) a byte >= 0x80 is negative and sign-extends.
CharToU32(c, char_signed) ==
    IF char_signed /\ c >= 128 THEN <<255, 255, 255, c>> ELSE <<0, 0, 0, c>>

\* size > n for a uint32_t size and 0 <= n <= 255
U32Gt(w, n) == w[1] > 0 \/ w[2] > 0 \/ w[3] > 0 \/ w[4] > n

\* the number a uint32_t holds; used only where it is known to be small
U32Val(w) == ((w[1] * 256 + w[2]) * 256 + w[3]) * 256 + w[4]

\* the uint32_t holding n, 0 <= n <= 255
U32Of(n) == <<0, 0, 0, n>>

get_size_in_network_byte_order(d, char_signed) ==
    U32Or(U32Or(CharToU32(d[4], char_signed),
                U32Shl8(CharToU32(d[3], char_signed), 1)),
          U32Or(U32Shl8(CharToU32(d[2], char_signed), 2),
                U32Shl8(CharToU32(d[1], char_signed), 3)))

\* check_small_size with >= for >: the bound itself is refused
check_small_size_GE(size) ==
    IF U32Gt(size, max_small_blob_header_size - 1)
    THEN [err |-> ErrSmallSize, size |-> 0]
    ELSE [err |-> NoError, size |-> U32Val(size)]

\* [err, size]: throws when size > max_small_blob_header_size, else returns size
check_small_size(size) ==
    IF U32Gt(size, max_small_blob_header_size)
    THEN [err |-> ErrSmallSize, size |-> 0]
    ELSE [err |-> NoError, size |-> U32Val(size)]

(***************************************************************************)
(* Strings are sequences of characters; NUL is the terminating zero char.  *)
(***************************************************************************)
NUL == "\\0"

OSMHeader == <<"O", "S", "M", "H", "e", "a", "d", "e", "r">>

OSMData == <<"O", "S", "M", "D", "a", "t", "a">>

\* protozero::data_view: a pointer (null in a default-constructed view) and a size
NullView == [null |-> TRUE, chars |-> <<>>]

ViewOf(chars) == [null |-> FALSE, chars |-> chars]

\* the i-th char (from 0) of the 0-terminated string s
CStrAt(s, i) == IF i < Len(s) THEN s[i + 1] ELSE NUL

\* std::strncmp(s1, s2, n) for a 0-terminated s1 and n readable chars at s2:
\* 0 when the first n chars agree, or agree up to and including a NUL.
RECURSIVE StrncmpFrom(_, _, _, _)
StrncmpFrom(s1, s2, n, i) ==
    IF i >= n THEN 0
    ELSE IF CStrAt(s1, i) # s2[i + 1] THEN 1
    ELSE IF CStrAt(s1, i) = NUL THEN 0
    ELSE StrncmpFrom(s1, s2, n, i + 1)

\* std::strncmp(expected_type, view.data(), view.size()).  A null data()
\* (the type field was absent) is undefined behaviour even with size 0;
\* null_cmp is the value such a call returns in the build at hand.
strncmp(s1, view, null_cmp) ==
    IF view.null THEN null_cmp ELSE StrncmpFrom(s1, view.chars, Len(view.chars), 0)

(***************************************************************************)
(* The container file.  A block is                                         *)
(*   pre           the four bytes of its length prefix                     *)
(*   has_type/type the BlobHeader's type field, when the message has one   *)
(*   has_datasize/datasize the BlobHeader's datasize field (an int32)      *)
(*   body          what the body bytes hold: [corrupt, items]              *)
(*   start         the offset of its first byte in the file                *)
(* The header message fills the h bytes after the prefix, h the prefix's   *)
(* big-endian value, and the body the datasize bytes after that.  Past a   *)
(* prefix over the small-header bound nothing is structured: the block     *)
(* then stands for the prefix and datasize further bytes.                  *)
(***************************************************************************)
\* the big-endian unsigned value of the prefix is at most the small-header bound
SmallPrefix(b) == ~U32Gt(b.pre, max_small_blob_header_size)

HeaderLen(b) == IF SmallPrefix(b) THEN U32Val(b.pre) ELSE 0

BodyLen(b) == IF b.has_datasize /\ b.datasize > 0 THEN b.datasize ELSE 0

BlockLen(b) == 4 + HeaderLen(b) + BodyLen(b)

\* offset of the first byte of block k (k may be Len(blocks) + 1: the end);
\* every block of a description carries the offset it starts at
BlockStart(blocks, k) ==
    IF k <= Len(blocks) THEN blocks[k].start
    ELSE IF k = 1 THEN 0
    ELSE blocks[k - 1].start + BlockLen(blocks[k - 1])

HeaderStart(blocks, k) == BlockStart(blocks, k) + 4

BodyStart(blocks, k) == HeaderStart(blocks, k) + HeaderLen(blocks[k])

TotalLen(blocks) == BlockStart(blocks, Len(blocks) + 1)

(***************************************************************************)
(* File primitives (osmium::util, osmium::io::detail): the cursor is the   *)
(* position of the open file description.                                  *)
(***************************************************************************)
Min(a, b) == IF a <= b THEN a ELSE b

\* read_exactly that returns true at end of file as well, with the bytes it
\* got
read_exactly_ShortOk(f, pos, size) ==
    IF pos + size <= f.size
    THEN [ok |-> TRUE, pos |-> pos + size, from |-> pos, len |-> size]
    ELSE [ok |-> TRUE, pos |-> IF pos < f.size THEN f.size ELSE pos,
          from |-> pos, len |-> IF pos < f.size THEN f.size - pos ELSE 0]

\* read_exactly(fd, buffer, size) with the cursor at pos: [ok, pos, from, len].
\* reliable_read returns 0 only at end of file; bytes read before that have
\* moved the cursor.
read_exactly(f, pos, size) ==
    IF size = 0 THEN [ok |-> TRUE, pos |-> pos, from |-> pos, len |-> 0]
    ELSE IF pos + size <= f.size
         THEN [ok |-> TRUE, pos |-> pos + size, from |-> pos, len |-> size]
         ELSE [ok |-> FALSE, pos |-> IF pos < f.size THEN f.size ELSE pos,
               from |-> pos, len |-> IF pos < f.size THEN f.size - pos ELSE 0]

\* osmium::util::file_seek(fd, offset): lseek to an absolute position, which
\* may lie past the end of the file
file_seek(fd, off) == [fd EXCEPT !.pos = off]

\* The four bytes at `from` when they are a block's length prefix.  Bytes that
\* are not a prefix in the description are unstructured: they read as 0xff.
PrefixBytes(f, from) ==
    IF \E k \in 1..Len(f.blocks) : BlockStart(f.blocks, k) = from
    THEN f.blocks[CHOOSE k \in 1..Len(f.blocks) : BlockStart(f.blocks, k) = from].pre
    ELSE <<255, 255, 255, 255>>

\* The fields of the BlobHeader message in the len bytes at `from`;
\* unstructured bytes hold neither field.
HeaderMessage(f, from, len) ==
    LET here(k) == /\ HeaderStart(f.blocks, k) = from
                   /\ SmallPrefix(f.blocks[k])
                   /\ HeaderLen(f.blocks[k]) = len
    IN  IF \E k \in 1..Len(f.blocks) : here(k)
        THEN LET b == f.blocks[CHOOSE k \in 1..Len(f.blocks) : here(k)]
             IN  [has_type |-> b.has_type, type |-> b.type,
                  has_datasize |-> b.has_datasize, datasize |-> b.datasize]
        ELSE [has_type |-> FALSE, type |-> <<>>, has_datasize |-> FALSE, datasize |-> 0]

(***************************************************************************)
(* Index construction.                                                     *)
(***************************************************************************)
\* what the build at hand makes of the code's implementation-defined and
\* undefined spots: [char_signed, null_cmp]
Builds == [char_signed : BOOLEAN, null_cmp : {0, 1}]

\* read_blob_header_size_from_file(fd) with the cursor at pos: [err, size, pos]
read_blob_header_size_from_file(f, pos, build) ==
    LET r == read_exactly(f, pos, 4)
    IN  IF ~r.ok
        THEN [err |-> ErrEofSize, size |-> 0, pos |-> r.pos]
        ELSE LET c == check_small_size(
                          get_size_in_network_byte_order(PrefixBytes(f, r.from),
                                                         build.char_signed))
             IN  [err |-> c.err, size |-> c.size, pos |-> r.pos]

\* decode_blob_header without its datasize check
DataSizeUnchecked(blob_header_datasize) == FALSE

\* blob_header_datasize == 0: the field was absent (the initial 0) or zero
DataSizeMissingOrZero(blob_header_datasize) == blob_header_datasize = 0

\* decode_blob_header(data, expected_type): [err, datasize]
decode_blob_header(msg, expected_type, build) ==
    LET blob_header_type == IF msg.has_type THEN ViewOf(msg.type) ELSE NullView
        blob_header_datasize == IF msg.has_datasize THEN msg.datasize ELSE 0
    IN  IF DataSizeMissingOrZero(blob_header_datasize)
        THEN [err |-> ErrDataSize, datasize |-> 0]
        ELSE IF strncmp(expected_type, blob_header_type, build.null_cmp) # 0
        THEN [err |-> ErrType, datasize |-> 0]
        ELSE [err |-> NoError, datasize |-> blob_header_datasize]

\* const char* expected_type = should_index_block ? "OSMData" : "OSMHeader"
ExpectedType(should_index_block) == IF should_index_block THEN OSMData ELSE OSMHeader

\* the block-size check with >= for >: the bound itself is refused
BlockTooLarge_GE(blob_body_size) == blob_body_size >= max_block_size

\* blob_body_size > detail::max_block_size
BlockTooLarge(blob_body_size) == blob_body_size > max_block_size

\* osmium::item_type::undefined
undefined == "undefined"

\* the pbf_block_start that digest_and_skip_block emplaces
NewBlockStart(current_offset, blob_body_size) ==
    [file_offset |-> current_offset,
     first_item_id_or_zero |-> 0,
     datasize |-> blob_body_size,
     first_item_type_or_zero |-> undefined]

\* digest_and_skip_block with the emplace_back outside the if: the header
\* block is indexed as well
IndexEveryBlock(starts, should_index_block, current_offset, blob_body_size) ==
    Append(starts, NewBlockStart(current_offset, blob_body_size))

\* if (should_index_block) m_block_starts.emplace_back(...)
IndexBlock(starts, should_index_block, current_offset, blob_body_size) ==
    IF should_index_block
    THEN Append(starts, NewBlockStart(current_offset, blob_body_size))
    ELSE starts

\* digest_and_skip_block that does not skip the body: the offset returned
\* and sought is the one behind the header message
digest_and_skip_block_BodyNotSkipped(f, fd, starts, current_offset, should_index_block, build) ==
    LET hs == read_blob_header_size_from_file(f, fd.pos, build)
        rd == read_exactly(f, hs.pos, hs.size)
        off2 == current_offset + 4 + hs.size
        dec == decode_blob_header(HeaderMessage(f, rd.from, hs.size),
                                  ExpectedType(should_index_block), build)
        thrown(e, pos) == [err |-> e, offset |-> current_offset,
                           fd |-> [fd EXCEPT !.pos = pos], starts |-> starts]
    IN  IF hs.err # NoError THEN thrown(hs.err, hs.pos)
        ELSE IF ~rd.ok THEN thrown(ErrEofHeader, rd.pos)
        ELSE IF dec.err # NoError THEN thrown(dec.err, rd.pos)
        ELSE IF BlockTooLarge(dec.datasize) THEN thrown(ErrBlockSize, rd.pos)
        ELSE [err |-> NoError,
              offset |-> off2,
              fd |-> file_seek([fd EXCEPT !.pos = rd.pos], off2),
              starts |-> IndexBlock(starts, should_index_block, off2, dec.datasize)]

\* digest_and_skip_block(current_offset, file_size, should_index_block) on
\* the table [fd, starts]: [err, offset, fd, starts]
digest_and_skip_block(f, fd, starts, current_offset, should_index_block, build) ==
    LET hs == read_blob_header_size_from_file(f, fd.pos, build)
        off1 == current_offset + 4
        rd == read_exactly(f, hs.pos, hs.size)
        off2 == off1 + hs.size
        dec == decode_blob_header(HeaderMessage(f, rd.from, hs.size),
                                  ExpectedType(should_index_block), build)
        off3 == off2 + dec.datasize
        thrown(e, pos) == [err |-> e, offset |-> current_offset,
                           fd |-> [fd EXCEPT !.pos = pos], starts |-> starts]
    IN  IF hs.err # NoError THEN thrown(hs.err, hs.pos)
        ELSE IF ~rd.ok THEN thrown(ErrEofHeader, rd.pos)
        ELSE IF dec.err # NoError THEN thrown(dec.err, rd.pos)
        ELSE IF BlockTooLarge(dec.datasize) THEN thrown(ErrBlockSize, rd.pos)
        ELSE [err |-> NoError,
              offset |-> off3,
              fd |-> file_seek([fd EXCEPT !.pos = rd.pos], off3),
              starts |-> IndexBlock(starts, should_index_block, off2, dec.datasize)]

PcSet == {"unopened", "header", "data", "throwing", "failed", "ready", "destroyed"}

\* the loop running only while a whole length prefix is left in the file
MoreBlocks_WholePrefixLeft(off, fsize) == off + 4 < fsize

\* the constructor's loop condition: while (offset < file_size)
MoreBlocks(off, fsize) == off < fsize

\* the constructor without its final check
PastEndUnchecked(off, fsize) == FALSE

\* the constructor's final check: if (offset > file_size) throw
PastEnd(off, fsize) == off > fsize

\* the constructor up to its first digest_and_skip_block: the file is opened
\* and its size taken
Open ==
    /\ pc = "unopened"
    /\ m_block_starts' = <<>>
    /\ m_fd' = [open |-> TRUE, pos |-> 0]
    /\ file_size' = file.size
    /\ offset' = 0
    /\ pc' = "header"
    /\ UNCHANGED <<file, err, result, returned, repeated>>
    /\ UNCHANGED <<wvars, bvars>>

\* one digest_and_skip_block call of the constructor, and what follows from it
Digest(from_pc, current_offset, should_index_block) ==
    /\ pc = from_pc
    /\ \E build \in Builds :
         LET r == digest_and_skip_block(file, m_fd, m_block_starts, current_offset,
                                        should_index_block, build)
         IN  /\ m_fd' = r.fd
             /\ m_block_starts' = r.starts
             /\ err' = r.err
             /\ IF r.err # NoError
                THEN pc' = "throwing" /\ offset' = offset
                ELSE pc' = "data" /\ offset' = r.offset
    /\ UNCHANGED <<file, file_size, result, returned, repeated>>
    /\ UNCHANGED <<wvars, bvars>>

\* std::size_t offset = digest_and_skip_block(0, file_size, false)
DigestHeader == Digest("header", 0, FALSE)

\* the loop body: offset = digest_and_skip_block(offset, file_size, true)
DigestData ==
    /\ MoreBlocks(offset, file_size)
    /\ Digest("data", offset, TRUE)

\* the loop has ended: the final check, and the constructor returns
Finish ==
    /\ pc = "data"
    /\ ~MoreBlocks(offset, file_size)
    /\ IF PastEnd(offset, file_size)
       THEN pc' = "throwing" /\ err' = ErrFileSize
       ELSE pc' = "ready" /\ err' = NoError
    /\ UNCHANGED <<file, file_size, offset, m_block_starts, m_fd, result, returned, repeated>>
    /\ UNCHANGED <<wvars, bvars>>

\* An exception leaves the constructor: the members constructed so far are
\* destroyed (the vector), the object never exists, and its destructor does
\* not run.
Unwind ==
    /\ pc = "throwing"
    /\ m_block_starts' = <<>>
    /\ pc' = "failed"
    /\ UNCHANGED <<file, file_size, offset, err, m_fd, result, returned, repeated>>
    /\ UNCHANGED <<wvars, bvars>>

NoResult == [called |-> FALSE, block_index |-> 0, read_metadata |-> "no",
             err |-> NoError, buffer |-> <<>>]

\* ~PbfBlockIndexTable(): reliable_close(m_fd); the members are destroyed
Destroy ==
    /\ pc = "ready"
    /\ m_fd' = [m_fd EXCEPT !.open = FALSE]
    /\ m_block_starts' = <<>>
    /\ pc' = "destroyed"
    /\ result' = NoResult
    /\ returned' = {}
    /\ repeated' = FALSE
    /\ UNCHANGED <<file, file_size, offset, err>>
    /\ UNCHANGED <<wvars, bvars>>

NextCtor == Open \/ DigestHeader \/ DigestData \/ Finish \/ Unwind \/ Destroy

(***************************************************************************)
(* On-demand decode of one block.                                          *)
(***************************************************************************)
\* osmium::osm_entity_bits::all
EntityBitsAll == {"node", "way", "relation", "area", "changeset"}

\* the kinds of osmium::OSMObject
OSMObjectTypes == {"node", "way", "relation", "area"}

\* osmium::io::read_meta
ReadMeta == {"no", "yes"}

\* What the len bytes at `from` hold when they are exactly one block's body;
\* any other range of the file is no blob the decoder can decode.
BodyAt(f, from, len) ==
    LET here(k) == /\ SmallPrefix(f.blocks[k])
                   /\ BodyStart(f.blocks, k) = from
                   /\ BodyLen(f.blocks[k]) = len
    IN  IF \E k \in 1..Len(f.blocks) : here(k)
        THEN f.blocks[CHOOSE k \in 1..Len(f.blocks) : here(k)].body
        ELSE [corrupt |-> TRUE, items |-> <<>>]

\* PBFDataBlobDecoder{input_buffer, read_types, read_metadata}(): [err, buffer].
\* The buffer holds the blob's entities of the requested kinds, in the blob's
\* order, with their metadata when read_metadata asks for it.
PBFDataBlobDecoder(body, read_types, read_metadata) ==
    IF body.corrupt
    THEN [err |-> ErrDecode, buffer |-> <<>>]
    ELSE LET wanted == SelectSeq(body.items, LAMBDA it : it.type \in read_types)
         IN  [err |-> NoError,
              buffer |-> [i \in 1..Len(wanted) |->
                             [type |-> wanted[i].type, id |-> wanted[i].id,
                              meta |-> read_metadata = "yes"]]]

\* buffer.begin<osmium::OSMObject>() .. buffer.end<osmium::OSMObject>()
OSMObjectsOf(buffer) == SelectSeq(buffer, LAMBDA it : it.type \in OSMObjectTypes)

\* the cache filled from the last object of the buffer instead of the first
UpdateFromLastItem(block_start, buffer) ==
    IF block_start.first_item_type_or_zero = undefined /\ buffer # <<>>
    THEN [block_start EXCEPT !.first_item_id_or_zero = buffer[Len(buffer)].id,
                             !.first_item_type_or_zero = buffer[Len(buffer)].type]
    ELSE block_start

\* if (block_start.first_item_type_or_zero == undefined) { it = begin; if (it != end) ... }
UpdateFirstItem(block_start, buffer) ==
    IF block_start.first_item_type_or_zero = undefined /\ OSMObjectsOf(buffer) # <<>>
    THEN [block_start EXCEPT !.first_item_id_or_zero = OSMObjectsOf(buffer)[1].id,
                             !.first_item_type_or_zero = OSMObjectsOf(buffer)[1].type]
    ELSE block_start

\* the seek taken from the cursor (SEEK_CUR) instead of the file's start
SeekFromCursor(fd, block_start) == file_seek(fd, fd.pos + block_start.file_offset)

\* get_parsed_block without its seek: the cursor stays where it is
SeekNowhere(fd, block_start) == fd

\* osmium::util::file_seek(m_fd, block_start.file_offset)
SeekToBlock(fd, block_start) == file_seek(fd, block_start.file_offset)

\* read_types narrowed by the flags: only nodes unless metadata is asked for
ReadTypesByFlags(read_metadata) ==
    IF read_metadata = "yes" THEN EntityBitsAll ELSE {"node"}

\* read_types of get_parsed_block: always osm_entity_bits::all
ReadTypes(read_metadata) == EntityBitsAll

\* auto block_start = m_block_starts[block_index]: a copy, so what is
\* assigned to block_start is lost
StoreInCopy(starts, block_index, block_start) == starts

\* auto& block_start = m_block_starts[0]: the first entry whatever the index
StoreInFirstEntry(starts, block_index, block_start) ==
    [starts EXCEPT ![1] = block_start]

\* auto& block_start = m_block_starts[block_index]: a reference, so what is
\* assigned to block_start is assigned to the table's entry
StoreBlockStart(starts, block_index, block_start) ==
    [starts EXCEPT ![block_index + 1] = block_start]

\* get_parsed_block(block_index, read_metadata), block_index counted from 0:
\* [err, fd, starts, buffer]
get_parsed_block(f, fd, starts, block_index, read_metadata) ==
    LET block_start == starts[block_index + 1]
        fd1 == SeekToBlock(fd, block_start)
        rd == read_exactly(f, fd1.pos, block_start.datasize)
        fd2 == [fd1 EXCEPT !.pos = rd.pos]
        dec == PBFDataBlobDecoder(BodyAt(f, rd.from, rd.len),
                                  ReadTypes(read_metadata), read_metadata)
    IN  IF ~rd.ok
        THEN [err |-> ErrEofBlock, fd |-> fd2, starts |-> starts, buffer |-> <<>>]
        ELSE IF dec.err # NoError
        THEN [err |-> dec.err, fd |-> fd2, starts |-> starts, buffer |-> <<>>]
        ELSE [err |-> NoError, fd |-> fd2,
              starts |-> StoreBlockStart(starts, block_index,
                                         UpdateFirstItem(block_start, dec.buffer)),
              buffer |-> dec.buffer]

\* One call get_parsed_block(block_index, read_metadata) by the table's user.
GetParsedBlockOn(block_index, read_metadata) ==
    /\ pc = "ready"
    /\ LET r == get_parsed_block(file, m_fd, m_block_starts, block_index, read_metadata)
       IN  /\ m_fd' = r.fd
           /\ m_block_starts' = r.starts
           /\ result' = [called |-> TRUE, block_index |-> block_index,
                         read_metadata |-> read_metadata,
                         err |-> r.err, buffer |-> r.buffer]
           /\ returned' = IF r.err = NoError
                          THEN returned \cup {<<block_index, read_metadata, r.buffer>>}
                          ELSE returned
           /\ repeated' = (/\ r.err = NoError
                           /\ \E t \in returned : t[1] = block_index /\ t[2] = read_metadata)
    /\ UNCHANGED <<file, pc, file_size, offset, err>>
    /\ UNCHANGED <<wvars, bvars>>

\* @pre block_index must be a valid index into m_block_starts.
ValidIndexes == 0..(Len(m_block_starts) - 1)

GetParsedBlock ==
    \E block_index \in ValidIndexes, read_metadata \in ReadMeta :
        GetParsedBlockOn(block_index, read_metadata)

\* The environment truncates the file after it was indexed: it now ends
\* inside the body of a data block or right before one.
ShrinkPoints(f) ==
    { p \in UNION { {BodyStart(f.blocks, k),
                     BodyStart(f.blocks, k) + BodyLen(f.blocks[k]) - 1}
                    : k \in 2..Len(f.blocks) } : p < f.size }

FileShrinks ==
    /\ pc = "ready"
    /\ \E p \in ShrinkPoints(file) : file' = [file EXCEPT !.size = p]
    /\ returned' = {}
    /\ repeated' = FALSE
    /\ UNCHANGED <<pc, file_size, offset, err, m_block_starts, m_fd, result>>
    /\ UNCHANGED <<wvars, bvars>>

NextAccess == GetParsedBlock \/ FileShrinks

Next == NextCtor \/ NextAccess

(***************************************************************************)
(* The files the model is run on.                                          *)
(***************************************************************************)
\* bytes of the varint holding n >= 0
VarintLen(n) ==
    IF n < 128 THEN 1
    ELSE IF n < 16384 THEN 2
    ELSE IF n < 2097152 THEN 3
    ELSE IF n < 268435456 THEN 4
    ELSE 5

\* bytes of the shortest BlobHeader message holding these fields: a tag byte
\* and a length byte before the type, a tag byte before the datasize
EncLen(has_type, type, has_datasize, datasize) ==
    (IF has_type THEN 2 + Len(type) ELSE 0)
    + (IF has_datasize THEN 1 + VarintLen(datasize) ELSE 0)

Item(type, id) == [type |-> type, id |-> id]

Body(items) == [corrupt |-> FALSE, items |-> items]

CorruptBody == [corrupt |-> TRUE, items |-> <<>>]

\* a block whose header message holds the given fields in hlen bytes (fields
\* the scanner skips fill what the two fields leave)
Block(hlen, has_type, type, has_datasize, datasize, body) ==
    [pre |-> U32Of(hlen), has_type |-> has_type, type |-> type,
     has_datasize |-> has_datasize, datasize |-> datasize, body |-> body,
     start |-> 0]

\* a block with both fields, its header message as short as can be
PlainBlock(type, datasize, body) ==
    Block(EncLen(TRUE, type, TRUE, datasize), TRUE, type, TRUE, datasize, body)

\* a length prefix over the small-header bound, and `rest` bytes after it
WildBlock(pre, rest) ==
    [pre |-> pre, has_type |-> FALSE, type |-> <<>>,
     has_datasize |-> TRUE, datasize |-> rest, body |-> CorruptBody, start |-> 0]

\* the type the scanner expects of the block at position k (from 1)
TypeAt(k) == ExpectedType(k > 1)

\* type strings that are not the one expected at position k: the other
\* block type, a proper prefix, the empty string, an extension
OddTypesAt(k) ==
    {ExpectedType(k = 1), <<"O", "S", "M">>, <<>>, TypeAt(k) \o <<"X">>}

\* the blocks tried at position k of a scanned file: the expected type with
\* a datasize of 1, of the block-size bound, over the bound, zero and absent,
\* and a datasize of 1 with every other type and with no type
ScanBlocksAt(k) ==
    LET body == Body(<<Item("node", 1)>>)
    IN  { PlainBlock(TypeAt(k), d, body) : d \in {0, 1, max_block_size, max_block_size + 1} }
        \cup { PlainBlock(t, 1, body) : t \in OddTypesAt(k) }
        \cup { Block(EncLen(FALSE, <<>>, TRUE, 1), FALSE, <<>>, TRUE, 1, body),
               Block(EncLen(TRUE, TypeAt(k), FALSE, 0), TRUE, TypeAt(k), FALSE, 0, body) }

\* the data blocks of the files that are read block by block: an empty
\* block, blocks of one and of two entities, and one the decoder refuses
AccessBlocksAt(k) ==
    IF k = 1 THEN { PlainBlock(OSMHeader, 1, Body(<<>>)) }
    ELSE { PlainBlock(OSMData, 1, Body(<<>>)),
           PlainBlock(OSMData, 2, Body(<<Item("node", 0)>>)),
           PlainBlock(OSMData, 3, Body(<<Item("way", 7), Item("relation", 3)>>)),
           PlainBlock(OSMData, 2, CorruptBody) }

\* the blocks tried at position k in the files of a family
BlocksAt(family, k) ==
    IF family = "scan" THEN ScanBlocksAt(k) ELSE AccessBlocksAt(k)

\* the block sequences of n blocks of a family, each block starting where
\* the one before it ends
RECURSIVE BlockSeqs(_, _)
BlockSeqs(family, n) ==
    IF n = 0 THEN {<<>>}
    ELSE { Append(s, [b EXCEPT !.start = TotalLen(s)])
           : s \in BlockSeqs(family, n - 1), b \in BlocksAt(family, n) }

\* the sizes tried for a file of these blocks: whole, or cut short inside the
\* last block: in its prefix, in its header message, before or in its body
SizesOf(blocks) ==
    LET n == Len(blocks)
        s == BlockStart(blocks, n)
        e == TotalLen(blocks)
    IN  IF n = 0 THEN {0}
        ELSE {e} \cup { p \in {s + 2, BodyStart(blocks, n) - 1, BodyStart(blocks, n), e - 1}
                        : s < p /\ p < e }

\* the sizes tried for a scanned file: those of SizesOf, and the file with
\* bytes after its last block, fewer than a length prefix or just one
\* (unstructured bytes, see PrefixBytes)
ScanSizesOf(blocks) ==
    SizesOf(blocks)
    \cup (IF Len(blocks) = 0 THEN {}
          ELSE {TotalLen(blocks) + 2, TotalLen(blocks) + 4})

\* no worker has a table: the workers are not part of the run
NoWorkers ==
    /\ shared = FALSE
    /\ tables = <<>>
    /\ calls = <<>>

\* no builder was ever opened: the builders are not part of the run
NoBuilders ==
    /\ m_buffer = <<>>
    /\ stack = <<>>
    /\ closed = <<>>
    /\ last_op = [op |-> "none", fault |-> "none"]

TableUnopened ==
    /\ pc = "unopened"
    /\ file_size = 0
    /\ offset = 0
    /\ err = NoError
    /\ m_block_starts = <<>>
    /\ m_fd = [open |-> FALSE, pos |-> 0]
    /\ result = NoResult
    /\ returned = {}
    /\ repeated = FALSE

\* SpecScan: every file of a header block and up to MaxDataBlocks data blocks
InitScan ==
    /\ \E n \in 0..(MaxDataBlocks + 1) :
         \E blocks \in BlockSeqs("scan", n) :
           \E size \in ScanSizesOf(blocks) :
             file = [blocks |-> blocks, size |-> size]
    /\ TableUnopened
    /\ NoWorkers
    /\ NoBuilders

SpecScan == InitScan /\ [][NextCtor]_vars

\* A step of the constructor (Open, DigestHeader, DigestData, Finish or
\* Unwind), told by what it changes: it moves the constructor on to another
\* place, or stays in the loop and moves the offset.  The constructor is
\* one thread of straight-line code and a loop: while it has neither
\* returned nor thrown, it takes its next step.
Construct ==
    /\ pc \in {"unopened", "header", "data", "throwing"}
    /\ \/ pc' \in PcSet \ {pc} /\ offset' = offset
       \/ pc' \in PcSet /\ offset' > offset

\* where the constructor is: its place in the code and its local offset
ctor == <<pc, offset>>

\* the files of InitScan, written to the path before it is opened
EmptyFile == [blocks |-> <<>>, size |-> 0]

WriteFile ==
    /\ pc = "unopened"
    /\ file = EmptyFile
    /\ \E n \in 1..(MaxDataBlocks + 1) :
         \E blocks \in BlockSeqs("scan", n) :
           \E size \in ScanSizesOf(blocks) :
             file' = [blocks |-> blocks, size |-> size]
    /\ UNCHANGED <<pc, file_size, offset, err, m_block_starts, m_fd,
                   result, returned, repeated>>
    /\ UNCHANGED <<wvars, bvars>>

InitEmpty ==
    /\ file = EmptyFile
    /\ TableUnopened
    /\ NoWorkers
    /\ NoBuilders

NextScanLive == WriteFile \/ NextCtor

SpecScanLive == InitEmpty /\ [][NextScanLive]_vars /\ WF_ctor(Construct)

\* Spec: a header block and up to MaxAccessBlocks data blocks, whole or cut
Init ==
    /\ \E n \in 0..(MaxAccessBlocks + 1) :
         \E blocks \in BlockSeqs("access", n) :
           \E size \in SizesOf(blocks) :
             file = [blocks |-> blocks, size |-> size]
    /\ TableUnopened
    /\ NoWorkers
    /\ NoBuilders

Spec == Init /\ [][Next]_vars

\* the bytes tried in a length prefix
PrefixByteSet == {0, 1, 13, max_small_blob_header_size, max_small_blob_header_size + 1, 127, 128, 255}

\* a block with the length prefix pre: when the prefix is within the
\* small-header bound and the fields fit the header message, the block holds
\* them; a shorter message holds neither field
PrefixedBlock(pre, type) ==
    IF U32Gt(pre, max_small_blob_header_size) THEN WildBlock(pre, 1)
    ELSE IF U32Val(pre) >= EncLen(TRUE, type, TRUE, 1)
    THEN [Block(U32Val(pre), TRUE, type, TRUE, 1, Body(<<>>)) EXCEPT !.pre = pre]
    ELSE [Block(U32Val(pre), FALSE, <<>>, FALSE, 0, Body(<<>>)) EXCEPT !.pre = pre]

\* a header block whose header message is as long as the small-header bound
FullHeaderBlock ==
    Block(max_small_blob_header_size, TRUE, OSMHeader, TRUE, 1, Body(<<>>))

\* SpecPrefix: every length prefix over PrefixByteSet, on the header block or
\* on the data block after a header block
InitPrefix ==
    /\ \E pre \in PrefixByteSet \X PrefixByteSet \X PrefixByteSet \X PrefixByteSet :
         \E blocks \in { <<PrefixedBlock(pre, OSMHeader)>>,
                         <<FullHeaderBlock,
                           [PrefixedBlock(pre, OSMData) EXCEPT
                               !.start = BlockLen(FullHeaderBlock)]>> } :
           file = [blocks |-> blocks, size |-> TotalLen(blocks)]
    /\ TableUnopened
    /\ NoWorkers
    /\ NoBuilders

SpecPrefix == InitPrefix /\ [][NextCtor]_vars

(***************************************************************************)
(* Workers that call get_parsed_block at the same time.  A call is three   *)
(* steps, and other calls may run between them: the seek (lines 251-254),  *)
(* the read (256-260), and the decode with the cache update (261-271).     *)
(***************************************************************************)
Workers == 1..MaxWorkers

\* the constructor as a function of the file, for a file it accepts:
\* [m_fd, m_block_starts]
RECURSIVE ScanDataBlocks(_, _, _, _)
ScanDataBlocks(f, table, off, build) ==
    IF MoreBlocks(off, f.size)
    THEN LET r == digest_and_skip_block(f, table.m_fd, table.m_block_starts,
                                        off, TRUE, build)
         IN  ScanDataBlocks(f, [m_fd |-> r.fd, m_block_starts |-> r.starts],
                            r.offset, build)
    ELSE table

PbfBlockIndexTable(f) ==
    LET build == [char_signed |-> FALSE, null_cmp |-> 0]
        h == digest_and_skip_block(f, [open |-> TRUE, pos |-> 0], <<>>, 0, FALSE, build)
    IN  ScanDataBlocks(f, [m_fd |-> h.fd, m_block_starts |-> h.starts], h.offset, build)

\* the table a worker calls get_parsed_block on
TableOf(w) == IF shared THEN 1 ELSE w

NoCall == [pc |-> "idle", block_index |-> 0, read_metadata |-> "no",
           ok |-> TRUE, from |-> 0, len |-> 0, err |-> NoError, buffer |-> <<>>]

\* auto& block_start = m_block_starts[block_index];
\* osmium::util::file_seek(m_fd, block_start.file_offset)
WorkerSeeks(w) ==
    /\ calls[w].pc = "idle"
    /\ \E block_index \in 0..(Len(tables[TableOf(w)].m_block_starts) - 1),
          read_metadata \in ReadMeta :
         LET t == tables[TableOf(w)]
         IN  /\ tables' = [tables EXCEPT ![TableOf(w)].m_fd =
                              SeekToBlock(t.m_fd, t.m_block_starts[block_index + 1])]
             /\ calls' = [calls EXCEPT ![w] =
                              [NoCall EXCEPT !.pc = "seeked",
                                             !.block_index = block_index,
                                             !.read_metadata = read_metadata]]
    /\ UNCHANGED <<file, pc, file_size, offset, err, m_block_starts, m_fd, result,
                   returned, repeated, shared, bvars>>

\* read_exactly(m_fd, ..., block_start.datasize), and the throw when it fails
WorkerReads(w) ==
    /\ calls[w].pc = "seeked"
    /\ LET t == tables[TableOf(w)]
           rd == read_exactly(file, t.m_fd.pos,
                              t.m_block_starts[calls[w].block_index + 1].datasize)
       IN  /\ tables' = [tables EXCEPT ![TableOf(w)].m_fd.pos = rd.pos]
           /\ calls' = [calls EXCEPT ![w].pc = IF rd.ok THEN "read" ELSE "done",
                                     ![w].ok = rd.ok,
                                     ![w].from = rd.from,
                                     ![w].len = rd.len,
                                     ![w].err = IF rd.ok THEN NoError ELSE ErrEofBlock]
    /\ UNCHANGED <<file, pc, file_size, offset, err, m_block_starts, m_fd, result,
                   returned, repeated, shared, bvars>>

\* the decoder runs on the bytes read, the first-item fields of the entry
\* are written, the buffer is returned
WorkerDecodes(w) ==
    /\ calls[w].pc = "read"
    /\ LET t == tables[TableOf(w)]
           c == calls[w]
           dec == PBFDataBlobDecoder(BodyAt(file, c.from, c.len),
                                     ReadTypes(c.read_metadata), c.read_metadata)
       IN  /\ calls' = [calls EXCEPT ![w].pc = "done",
                                     ![w].err = dec.err,
                                     ![w].buffer = dec.buffer]
           /\ tables' = IF dec.err # NoError THEN tables
                        ELSE [tables EXCEPT ![TableOf(w)].m_block_starts =
                                 StoreBlockStart(t.m_block_starts, c.block_index,
                                     UpdateFirstItem(t.m_block_starts[c.block_index + 1],
                                                     dec.buffer))]
    /\ UNCHANGED <<file, pc, file_size, offset, err, m_block_starts, m_fd, result,
                   returned, repeated, shared, bvars>>

NextWorkers ==
    \/ \E w \in Workers : WorkerSeeks(w)
    \/ \E w \in Workers : WorkerReads(w)
    \/ \E w \in Workers : WorkerDecodes(w)

\* the data block at position k of the files the workers read: a node or a
\* way and a relation, blocks of the same size at different positions
\* differing in the node's id
WorkerBlocksAt(k) ==
    { PlainBlock(OSMData, 2, Body(<<Item("node", k)>>)),
      PlainBlock(OSMData, 3, Body(<<Item("way", 7), Item("relation", 3)>>)) }

WorkerFiles ==
    LET h == PlainBlock(OSMHeader, 1, Body(<<>>))
    IN  { LET blocks == <<h, [b1 EXCEPT !.start = BlockLen(h)],
                          [b2 EXCEPT !.start = BlockLen(h) + BlockLen(b1)]>>
          IN  [blocks |-> blocks, size |-> TotalLen(blocks)]
          : b1 \in WorkerBlocksAt(2), b2 \in WorkerBlocksAt(3) }

\* SpecWorkers: the workers, on one table or on a table each, every table
\* constructed on the same file, and no call begun
InitWorkers ==
    /\ file \in WorkerFiles
    /\ TableUnopened
    /\ NoBuilders
    /\ shared \in BOOLEAN
    /\ tables = [w \in Workers |-> PbfBlockIndexTable(file)]
    /\ calls = [w \in Workers |-> NoCall]

SpecWorkers == InitWorkers /\ [][NextWorkers]_vars

(***************************************************************************)
(* The builders (osmium/builder/osm_object_builder.hpp).  The buffer is    *)
(* the sequence of the pieces written to it, each a record with its length *)
(* in bytes (len):                                                         *)
(*   "item"     an Item's header and fixed fields: its type and its stored *)
(*              size (the content-length, Item::byte_size())               *)
(*   "user"     the bytes an object or changeset keeps for the user name   *)
(*   "str"      a string and its terminating zero byte                     *)
(*   "node_ref", "member", "comment"   a NodeRef, RelationMember,          *)
(*              ChangesetComment record                                    *)
(*   "copy"     the copy of a full member object                           *)
(*   "padding"  zero bytes written by add_padding                          *)
(* A length that a caller passes is a size_t, held as <<hi, lo>> for the   *)
(* number hi * 2^16 + lo, since a text can be too long for 32 bits.  A     *)
(* string is the sequence of its zero-free parts, [name, len] each, a zero *)
(* byte between two parts: most strings have one part.                     *)
(***************************************************************************)
\* osmium::memory::align_bytes
align_bytes == 8

\* osmium::memory::padded_length(length)
padded_length(length) == ((length + align_bytes - 1) \div align_bytes) * align_bytes

\* osmium::max_osm_string_length = 256 * 4
max_osm_string_length == 1024

\* sizeof(T) of the Items and records written
SizeOf(T) ==
    CASE T \in {"tag_list", "way_node_list", "outer_ring", "inner_ring",
                "relation_member_list", "changeset_discussion"} -> 8
      [] T \in {"NodeRef", "RelationMember", "ChangesetComment"} -> 16
      [] T = "node" -> 40
      [] T \in {"way", "relation", "area"} -> 32
      [] T = "changeset" -> 56

\* sizeof(string_size_type): a uint16_t
SizeOfStringSize == 2

\* a size_t
SizeT(hi, lo) == <<hi, lo>>

SizeOfInt(n) == <<n \div 65536, n % 65536>>

\* a > b for two size_t
SizeGt(a, b) == a[1] > b[1] \/ (a[1] = b[1] /\ a[2] > b[2])

\* the number a size_t holds, for one below 2^31
IntOfSize(a) == a[1] * 65536 + a[2]

\* a + b for two size_t below 2^31
SizePlus(a, b) == SizeOfInt(IntOfSize(a) + IntOfSize(b))

\* std::numeric_limits<osmium::changeset_comment_size_type>::max() - 1
MaxCommentTextLength == SizeT(65535, 65534)

\* a string of one part
Str(name, len) == <<[name |-> name, len |-> len]>>

\* std::strlen(s): the length of the first part
strlen(s) == IF s = <<>> THEN SizeT(0, 0) ELSE s[1].len

\* s.size() of a std::string, the length given with a pointer: all parts and
\* the zero bytes between them
RECURSIVE StrSize(_)
StrSize(s) ==
    IF s = <<>> THEN SizeT(0, 0)
    ELSE IF Len(s) = 1 THEN s[1].len
    ELSE SizePlus(SizePlus(s[1].len, SizeT(0, 1)), StrSize(Tail(s)))

\* the string a const char* points to: what lies before the first zero byte
CStr(s) == IF s = <<>> THEN Str("", SizeT(0, 0)) ELSE <<s[1]>>

\* m_buffer.written(): the bytes of the first n pieces, of all pieces
RECURSIVE BytesOf(_, _)
BytesOf(buf, n) == IF n = 0 THEN 0 ELSE BytesOf(buf, n - 1) + buf[n].len

Written(buf) == BytesOf(buf, Len(buf))

\* the offset of piece i in the buffer
OffsetOf(buf, i) == BytesOf(buf, i - 1)

\* Buffer::reserve_space(size) and the write that follows it
reserve_space(buf, piece) == Append(buf, piece)

\* Builder::size(): item().byte_size() of the builder at position j
size(buf, stk, j) == buf[stk[j].m_item].size

\* Builder::add_size(size) of the builder at position j of the stack:
\* item().add_size(size), and m_parent->add_size(size) up to the outermost
RECURSIVE add_size(_, _, _, _)
add_size(buf, stk, j, n) ==
    IF j = 0 THEN buf
    ELSE add_size([buf EXCEPT ![stk[j].m_item].size = @ + n], stk, j - 1, n)

\* Builder::add_padding(self) of the builder at position j: zero bytes up to
\* the next multiple of align_bytes of size(), added to the own size when
\* self, else to the parent's (and its ancestors')
add_padding(buf, stk, j, self) ==
    LET padding == align_bytes - (size(buf, stk, j) % align_bytes)
        padded == reserve_space(buf, [k |-> "padding", len |-> padding])
    IN  IF padding = align_bytes THEN buf
        ELSE IF self THEN add_size(padded, stk, j, padding)
        ELSE IF j > 1 THEN add_size(padded, stk, j - 1, padding)
        ELSE padded

\* Builder::append(data, length), append_with_zero(data, length), append(str):
\* the bytes of the string and its terminating zero are written; returns the
\* buffer, the number of bytes is StrBytes(s)
StrBytes(s) == IntOfSize(StrSize(s)) + 1

append(buf, s) == reserve_space(buf, [k |-> "str", s |-> s, len |-> StrBytes(s)])

\* Builder::Builder(buffer, parent, size) and new (&item()) T{}: the Item is
\* written at the end of the buffer with the size sizeof(T); the parent and
\* its ancestors grow by the bytes reserved; the builder is the innermost
\* the attributes of an object as T{} leaves them
NoAttributes ==
    [id |-> 0, version |-> 0, changeset |-> 0, timestamp |-> 0, visible |-> TRUE, uid |-> 0]

NewItem(T, parent) ==
    [k |-> "item", type |-> T, size |-> SizeOf(T), len |-> SizeOf(T),
     user_size |-> 0, parent |-> parent, added |-> <<>>, attrs |-> NoAttributes]

NewBuilder(cls, item) == [cls |-> cls, m_item |-> item, m_comment |-> 0]

Builder(buf, stk, cls, T, size_reserved) ==
    LET j == Len(stk)
        parent == IF j = 0 THEN 0 ELSE stk[j].m_item
        reserved == reserve_space(buf, NewItem(T, parent))
    IN  [buf |-> IF j = 0 THEN reserved ELSE add_size(reserved, stk, j, size_reserved),
         stk |-> Append(stk, NewBuilder(cls, Len(buf) + 1))]

\* what a call of a builder leaves: the buffer, the open builders, and the
\* exception thrown ("none" when it returned)
Done(buf, stk) == [buf |-> buf, stk |-> stk, fault |-> "none"]

Thrown(buf, stk, what) == [buf |-> buf, stk |-> stk, fault |-> what]

\* a failed assert(): the program is aborted where it stands
Aborted(buf, stk) == [buf |-> buf, stk |-> stk, fault |-> "assert"]

\* the innermost open builder
Top(stk) == Len(stk)

\* the caller's record of a successful add, kept beside the Item
Remember(buf, stk, what) == [buf EXCEPT ![stk[Top(stk)].m_item].added = Append(@, what)]

\* add_size(append(...)) of the innermost builder
AppendString(buf, stk, s) == add_size(append(buf, s), stk, Top(stk), StrBytes(s))

\* TagListBuilder::TagListBuilder(buffer, parent)
TagListBuilder(buf, stk) == Builder(buf, stk, "TagListBuilder", "tag_list", SizeOf("tag_list"))

\* a destructor's last step: the builder is no longer open
Pop(stk) == SubSeq(stk, 1, Len(stk) - 1)

\* a destructor that counts its padding in the Item's own content-length
TagListBuilder_dtor_PadsSelf(buf, stk) == Done(add_padding(buf, stk, Top(stk), TRUE), Pop(stk))

\* a destructor that writes no padding
TagListBuilder_dtor_Unpadded(buf, stk) == Done(buf, Pop(stk))

\* TagListBuilder::~TagListBuilder()
TagListBuilder_dtor(buf, stk) == Done(add_padding(buf, stk, Top(stk), FALSE), Pop(stk))

\* length checks that refuse the greatest length too
TagTooLong_GE(key_length, value_length) ==
    IF ~SizeGt(SizeOfInt(max_osm_string_length), key_length) THEN "OSM tag key is too long"
    ELSE IF ~SizeGt(SizeOfInt(max_osm_string_length), value_length) THEN "OSM tag value is too long"
    ELSE "none"

\* the two length checks of every add_tag that takes strings or lengths
TagTooLong(key_length, value_length) ==
    IF SizeGt(key_length, SizeOfInt(max_osm_string_length)) THEN "OSM tag key is too long"
    ELSE IF SizeGt(value_length, SizeOfInt(max_osm_string_length)) THEN "OSM tag value is too long"
    ELSE "none"

\* the value written before the key
WriteTag_ValueFirst(buf, stk, key, value) ==
    LET with_value == AppendString(buf, stk, value)
    IN  AppendString(with_value, stk, key)

\* the key and the value written one after the other
WriteTag(buf, stk, key, value) ==
    LET with_key == AppendString(buf, stk, key)
    IN  AppendString(with_key, stk, value)

\* add_tag that writes the key before it looks at the value
add_tag_KeyWrittenFirst(buf, stk, key, value) ==
    IF SizeGt(strlen(key), SizeOfInt(max_osm_string_length))
    THEN Thrown(buf, stk, "OSM tag key is too long")
    ELSE IF SizeGt(strlen(value), SizeOfInt(max_osm_string_length))
    THEN Thrown(AppendString(buf, stk, CStr(key)), stk, "OSM tag value is too long")
    ELSE Done(Remember(WriteTag(buf, stk, CStr(key), CStr(value)), stk, <<key, value>>), stk)

\* add_tag(const char* key, const char* value)
add_tag(buf, stk, key, value) ==
    IF TagTooLong(strlen(key), strlen(value)) # "none"
    THEN Thrown(buf, stk, TagTooLong(strlen(key), strlen(value)))
    ELSE Done(Remember(WriteTag(buf, stk, CStr(key), CStr(value)), stk, <<key, value>>), stk)

\* add_tag(const char* key, key_length, const char* value, value_length) and
\* add_tag(const std::string& key, const std::string& value): the lengths are
\* the caller's, the bytes copied are all of them and a zero byte
add_tag_length(buf, stk, key, value) ==
    IF TagTooLong(StrSize(key), StrSize(value)) # "none"
    THEN Thrown(buf, stk, TagTooLong(StrSize(key), StrSize(value)))
    ELSE Done(Remember(WriteTag(buf, stk, key, value), stk, <<key, value>>), stk)

\* add_tag(const osmium::Tag& tag): no length is checked
add_tag_Tag(buf, stk, key, value) ==
    Done(Remember(WriteTag(buf, stk, CStr(key), CStr(value)), stk, <<key, value>>), stk)

\* NodeRefListBuilder<T>::NodeRefListBuilder(buffer, parent)
NodeRefListBuilder(buf, stk, T) == Builder(buf, stk, "NodeRefListBuilder", T, SizeOf(T))

\* NodeRefListBuilder<T>::~NodeRefListBuilder()
NodeRefListBuilder_dtor(buf, stk) == Done(add_padding(buf, stk, Top(stk), FALSE), Pop(stk))

\* add_node_ref that writes the NodeRef and leaves the sizes as they are
add_node_ref_Uncounted(buf, stk, ref) ==
    Done(Remember(reserve_space(buf, [k |-> "node_ref", ref |-> ref, len |-> SizeOf("NodeRef")]),
                  stk, ref), stk)

\* NodeRefListBuilder<T>::add_node_ref(node_ref)
add_node_ref(buf, stk, ref) ==
    LET reserved == reserve_space(buf, [k |-> "node_ref", ref |-> ref, len |-> SizeOf("NodeRef")])
    IN  Done(Remember(add_size(reserved, stk, Top(stk), SizeOf("NodeRef")), stk, ref), stk)

\* static_cast<osmium::string_size_type>(length): the low 16 bits
string_size_type(length) == length[2]

\* RelationMemberListBuilder::RelationMemberListBuilder(buffer, parent)
RelationMemberListBuilder(buf, stk) ==
    Builder(buf, stk, "RelationMemberListBuilder", "relation_member_list",
            SizeOf("relation_member_list"))

\* RelationMemberListBuilder::~RelationMemberListBuilder()
RelationMemberListBuilder_dtor(buf, stk) == Done(add_padding(buf, stk, Top(stk), FALSE), Pop(stk))

\* add_role that counts the padding of the role in the parent of the list
add_role_PadsOutside(buf, stk, member, role) ==
    IF SizeGt(StrSize(role), SizeOfInt(max_osm_string_length))
    THEN Thrown(buf, stk, "OSM relation member role is too long")
    ELSE LET sized == [buf EXCEPT ![member].role_size = (string_size_type(StrSize(role)) + 1) % 65536]
             written == AppendString(sized, stk, role)
         IN  Done(add_padding(written, stk, Top(stk), FALSE), stk)

\* add_role that leaves the role as long as it is, without padding
add_role_Unpadded(buf, stk, member, role) ==
    IF SizeGt(StrSize(role), SizeOfInt(max_osm_string_length))
    THEN Thrown(buf, stk, "OSM relation member role is too long")
    ELSE LET sized == [buf EXCEPT ![member].role_size = (string_size_type(StrSize(role)) + 1) % 65536]
         IN  Done(AppendString(sized, stk, role), stk)

\* RelationMemberListBuilder::add_role(member, role, length): member is the
\* piece of the RelationMember in the buffer
add_role(buf, stk, member, role) ==
    IF SizeGt(StrSize(role), SizeOfInt(max_osm_string_length))
    THEN Thrown(buf, stk, "OSM relation member role is too long")
    ELSE LET sized == [buf EXCEPT ![member].role_size = (string_size_type(StrSize(role)) + 1) % 65536]
             written == AppendString(sized, stk, role)
         IN  Done(add_padding(written, stk, Top(stk), TRUE), stk)

\* Builder::add_item(item): a copy of the item in its padded size
add_item(buf, stk, item_size) ==
    LET copied == reserve_space(buf, [k |-> "copy", len |-> padded_length(item_size)])
    IN  add_size(copied, stk, Top(stk), padded_length(item_size))

\* RelationMemberListBuilder::add_member(type, ref, role, role_length,
\* full_member): full_member is the size of the object to copy, 0 for nullptr
add_member(buf, stk, type, ref, role, full_member) ==
    LET member == Len(buf) + 1
        reserved == reserve_space(buf, [k |-> "member", type |-> type, ref |-> ref,
                                        full |-> full_member # 0, role_size |-> 0,
                                        len |-> SizeOf("RelationMember")])
        counted == add_size(reserved, stk, Top(stk), SizeOf("RelationMember"))
        with_role == add_role(counted, stk, member, role)
    IN  IF with_role.fault # "none" THEN with_role
        ELSE IF full_member # 0
        THEN Done(Remember(add_item(with_role.buf, stk, full_member), stk, <<ref, role>>), stk)
        ELSE Done(Remember(with_role.buf, stk, <<ref, role>>), stk)

\* ChangesetDiscussionBuilder::ChangesetDiscussionBuilder(buffer, parent);
\* m_comment is nullptr (0)
ChangesetDiscussionBuilder(buf, stk) ==
    Builder(buf, stk, "ChangesetDiscussionBuilder", "changeset_discussion",
            SizeOf("changeset_discussion"))

\* ChangesetDiscussionBuilder::~ChangesetDiscussionBuilder()
ChangesetDiscussionBuilder_dtor(buf, stk) ==
    IF stk[Top(stk)].m_comment # 0 THEN Aborted(buf, stk)
    ELSE Done(add_padding(buf, stk, Top(stk), FALSE), Pop(stk))

\* ChangesetDiscussionBuilder::add_user(comment, user, length)
add_user(buf, stk, comment, user) ==
    IF SizeGt(StrSize(user), SizeOfInt(max_osm_string_length))
    THEN Thrown(buf, stk, "OSM user name is too long")
    ELSE LET sized == [buf EXCEPT ![comment].user_size = (string_size_type(StrSize(user)) + 1) % 65536]
         IN  Done(AppendString(sized, stk, user), stk)

\* static_cast<osmium::changeset_comment_size_type>(length): the low 32
\* bits of the size_t, as two halves of 16 bits
changeset_comment_size_type(length) == SizeT(length[1] % 65536, length[2])

\* v + 1 in a changeset_comment_size_type: unsigned arithmetic of 32 bits
PlusOne32(v) ==
    IF v[2] < 65535 THEN SizeT(v[1], v[2] + 1) ELSE SizeT((v[1] + 1) % 65536, 0)

\* the check of add_text against max() instead of max() - 1
TextTooLong_OverMax(length) == SizeGt(length, SizeT(65535, 65535))

\* length > std::numeric_limits<osmium::changeset_comment_size_type>::max() - 1
TextTooLong(length) == SizeGt(length, MaxCommentTextLength)

\* ChangesetDiscussionBuilder::add_text(comment, text, length)
add_text(buf, stk, comment, text) ==
    IF TextTooLong(StrSize(text))
    THEN Thrown(buf, stk, "OSM changeset comment is too long")
    ELSE LET sized == [buf EXCEPT ![comment].text_size =
                                     PlusOne32(changeset_comment_size_type(StrSize(text)))]
             written == AppendString(sized, stk, text)
         IN  Done(add_padding(written, stk, Top(stk), TRUE), stk)

\* ChangesetDiscussionBuilder::add_comment(date, uid, user)
add_comment(buf, stk, date, uid, user) ==
    IF stk[Top(stk)].m_comment # 0 THEN Aborted(buf, stk)
    ELSE LET comment == Len(buf) + 1
             pending == [stk EXCEPT ![Top(stk)].m_comment = comment]
             reserved == reserve_space(buf, [k |-> "comment", date |-> date, uid |-> uid,
                                             user_size |-> 0, text_size |-> SizeT(0, 0),
                                             len |-> SizeOf("ChangesetComment")])
             counted == add_size(reserved, pending, Top(stk), SizeOf("ChangesetComment"))
         IN  add_user(counted, pending, comment, CStr(user))

\* add_comment_text that leaves m_comment set
add_comment_text_KeepsPending(buf, stk, text) ==
    IF stk[Top(stk)].m_comment = 0 THEN Aborted(buf, stk)
    ELSE LET with_text == add_text(buf, stk, stk[Top(stk)].m_comment, text)
         IN  IF with_text.fault # "none" THEN with_text
             ELSE Done(Remember(with_text.buf, stk, text), stk)

\* ChangesetDiscussionBuilder::add_comment_text(text), for a const char* and
\* for a std::string (text.c_str() with text.size())
add_comment_text(buf, stk, text) ==
    IF stk[Top(stk)].m_comment = 0 THEN Aborted(buf, stk)
    ELSE LET comment == stk[Top(stk)].m_comment
             cleared == [stk EXCEPT ![Top(stk)].m_comment = 0]
             with_text == add_text(buf, cleared, comment, text)
         IN  IF with_text.fault # "none" THEN with_text
             ELSE Done(Remember(with_text.buf, cleared, text), cleared)

\* OSMObjectBuilder::min_size_for_user: padded_length(sizeof(string_size_type) + 1)
min_size_for_user == padded_length(SizeOfStringSize + 1)

\* ChangesetBuilder::min_size_for_user: padded_length(1)
ChangesetBuilder_min_size_for_user == padded_length(1)

\* the bytes after the fixed fields that hold the user name: zero filled, no
\* name yet; object().set_user_size(1).  calls counts the calls of set_user
\* that returned (the caller's record, not in the buffer)
UserBytes(buf, stk, n) ==
    LET item == stk[Top(stk)].m_item
        reserved == reserve_space(buf, [k |-> "user", len |-> n, name |-> <<>>, calls |-> 0])
    IN  [reserved EXCEPT ![item].user_size = 1]

\* OSMObjectBuilder<TDerived, T>::OSMObjectBuilder(buffer, parent), and with
\* it NodeBuilder, WayBuilder, RelationBuilder, AreaBuilder
OSMObjectBuilder(buf, stk, T) ==
    LET base == Builder(buf, stk, "OSMObjectBuilder", T, SizeOf(T) + min_size_for_user)
        filled == UserBytes(base.buf, base.stk, min_size_for_user)
    IN  [buf |-> add_size(filled, base.stk, Top(base.stk), min_size_for_user),
         stk |-> base.stk]

\* ChangesetBuilder::ChangesetBuilder(buffer, parent)
ChangesetBuilder(buf, stk) ==
    LET base == Builder(buf, stk, "ChangesetBuilder", "changeset",
                        SizeOf("changeset") + ChangesetBuilder_min_size_for_user)
        filled == UserBytes(base.buf, base.stk, ChangesetBuilder_min_size_for_user)
    IN  [buf |-> add_size(filled, base.stk, Top(base.stk), ChangesetBuilder_min_size_for_user),
         stk |-> base.stk]

\* Builder::~Builder() of an object or changeset builder: nothing is written
Builder_dtor(buf, stk) == Done(buf, Pop(stk))

\* set_user that reserves length - available_space bytes, not padded
StoreUser_Unpadded(buf, stk, user, length, available_space) ==
    LET item == stk[Top(stk)].m_item
        space_needed == length - available_space
        reserved == IF item + 1 = Len(buf)
                    THEN [buf EXCEPT ![item + 1].len = @ + space_needed]
                    ELSE reserve_space(buf, [k |-> "user", len |-> space_needed,
                                             name |-> <<>>, calls |-> 0])
        grown == IF length > available_space
                 THEN add_size(reserved, stk, Top(stk), space_needed)
                 ELSE buf
    IN  [grown EXCEPT ![item + 1].name = [s |-> user, n |-> length],
                      ![item + 1].calls = @ + 1,
                      ![item].user_size = (length + 1) % 65536]

\* the part of set_user(user, length) both classes share: available_space
\* bytes are there for the name; a longer name gets padded_length(length -
\* available_space) more, zero filled, at the end of the buffer (right behind
\* them when nothing was written since); the name is copied and its size
\* stored as a string_size_type
StoreUser(buf, stk, user, length, available_space) ==
    LET item == stk[Top(stk)].m_item
        space_needed == padded_length(length - available_space)
        reserved == IF item + 1 = Len(buf)
                    THEN [buf EXCEPT ![item + 1].len = @ + space_needed]
                    ELSE reserve_space(buf, [k |-> "user", len |-> space_needed,
                                             name |-> <<>>, calls |-> 0])
        grown == IF length > available_space
                 THEN add_size(reserved, stk, Top(stk), space_needed)
                 ELSE buf
    IN  [grown EXCEPT ![item + 1].name = [s |-> user, n |-> length],
                      ![item + 1].calls = @ + 1,
                      ![item].user_size = (length + 1) % 65536]

\* set_user that refuses names longer than max_osm_string_length
set_user_length_Checked(buf, stk, user, length) ==
    IF length > max_osm_string_length THEN Thrown(buf, stk, "OSM user name is too long")
    ELSE Done(StoreUser(buf, stk, user, length, min_size_for_user - SizeOfStringSize - 1), stk)

\* OSMObjectBuilder::set_user(const char* user, const string_size_type length)
set_user_length(buf, stk, user, length) ==
    LET item == buf[stk[Top(stk)].m_item]
        size_of_object == SizeOf(item.type) + SizeOfStringSize
    IN  IF ~(item.user_size = 1 /\ item.size <= size_of_object + padded_length(1))
        THEN Aborted(buf, stk)
        ELSE Done(StoreUser(buf, stk, user, length,
                            min_size_for_user - SizeOfStringSize - 1), stk)

\* std::numeric_limits<string_size_type>::max()
MaxStringSize == 65535

\* OSMObjectBuilder::set_user(const char* user) and set_user(const
\* std::string& user): the length is strlen(user) or user.size()
set_user(buf, stk, user, len) ==
    IF ~SizeGt(SizeOfInt(MaxStringSize), len) THEN Aborted(buf, stk)
    ELSE set_user_length(buf, stk, user, string_size_type(len))

\* ChangesetBuilder::set_user(const char* user, const string_size_type length)
ChangesetBuilder_set_user_length(buf, stk, user, length) ==
    LET item == buf[stk[Top(stk)].m_item]
    IN  IF ~(item.user_size = 1 /\ item.size <= SizeOf("changeset") + padded_length(1))
        THEN Aborted(buf, stk)
        ELSE Done(StoreUser(buf, stk, user, length,
                            ChangesetBuilder_min_size_for_user - 1), stk)

\* ChangesetBuilder::set_user(const char* user): len <= max is asserted
ChangesetBuilder_set_user(buf, stk, user) ==
    IF SizeGt(strlen(user), SizeOfInt(MaxStringSize)) THEN Aborted(buf, stk)
    ELSE ChangesetBuilder_set_user_length(buf, stk, CStr(user), string_size_type(strlen(user)))

\* ChangesetBuilder::set_user(const std::string& user): size < max is asserted
ChangesetBuilder_set_user_string(buf, stk, user) ==
    IF ~SizeGt(SizeOfInt(MaxStringSize), StrSize(user)) THEN Aborted(buf, stk)
    ELSE ChangesetBuilder_set_user_length(buf, stk, user, string_size_type(StrSize(user)))

\* osmium::object_id_to_area_id(id, type): twice the id, one more for a
\* relation, with the sign of the id
object_id_to_area_id(id, type) ==
    LET area_id == (IF id < 0 THEN -id ELSE id) * 2 + (IF type = "relation" THEN 1 ELSE 0)
    IN  IF id < 0 THEN -area_id ELSE area_id

\* OSMIUM_FORWARD(setter): object().setter(value) of the innermost builder
Forward(buf, stk, setter, value) ==
    [buf EXCEPT ![stk[Top(stk)].m_item].attrs[setter] = value]

\* AreaBuilder::initialize_from_object(source): the six setters one after the
\* other, then set_user(source.user()), the overload for a const char*
initialize_from_object(buf, stk, source) ==
    LET with_id == Forward(buf, stk, "id", object_id_to_area_id(source.id, source.type))
        with_version == Forward(with_id, stk, "version", source.version)
        with_changeset == Forward(with_version, stk, "changeset", source.changeset)
        with_timestamp == Forward(with_changeset, stk, "timestamp", source.timestamp)
        with_visible == Forward(with_timestamp, stk, "visible", source.visible)
        with_uid == Forward(with_visible, stk, "uid", source.uid)
    IN  set_user(with_uid, stk, CStr(source.user), strlen(source.user))

\* the loop of add_tags: tl_builder.add_tag(p.first, p.second) for each pair,
\* up to the first that throws
RECURSIVE AddAllTags(_, _, _)
AddAllTags(buf, stk, tags) ==
    IF tags = <<>> THEN Done(buf, stk)
    ELSE LET first == add_tag(buf, stk, tags[1][1], tags[1][2])
         IN  IF first.fault # "none" THEN first
             ELSE AddAllTags(first.buf, first.stk, Tail(tags))

\* OSMObjectBuilder::add_tags(tags): a TagListBuilder with this as its
\* parent, destroyed when the function is left, by return or by exception
add_tags(buf, stk, tags) ==
    LET tl_builder == TagListBuilder(buf, stk)
        added == AddAllTags(tl_builder.buf, tl_builder.stk, tags)
        left == TagListBuilder_dtor(added.buf, added.stk)
    IN  [buf |-> left.buf, stk |-> left.stk, fault |-> added.fault]

\* the loop of add_node_refs
RECURSIVE AddAllNodeRefs(_, _, _)
AddAllNodeRefs(buf, stk, nodes) ==
    IF nodes = <<>> THEN Done(buf, stk)
    ELSE LET first == add_node_ref(buf, stk, nodes[1])
         IN  AddAllNodeRefs(first.buf, first.stk, Tail(nodes))

\* WayBuilder::add_node_refs(nodes): a WayNodeListBuilder with this as its
\* parent, destroyed when the function is left
add_node_refs(buf, stk, nodes) ==
    LET builder == NodeRefListBuilder(buf, stk, "way_node_list")
        added == AddAllNodeRefs(builder.buf, builder.stk, nodes)
    IN  NodeRefListBuilder_dtor(added.buf, added.stk)

(***************************************************************************)
(* The calls a program makes on the builders.  The innermost open builder  *)
(* is the one called; a new builder has the innermost open one as its      *)
(* parent.  Objects and changesets are built at the top of the buffer,     *)
(* lists inside them or on their own.  A thrown length_error is caught by  *)
(* the caller, who goes on or lets the builders go out of scope; a failed  *)
(* assert() ends the program.                                              *)
(***************************************************************************)
\* the most pieces in the buffer at which a builder is still opened; an add
\* needs one less
MaxPieces == 6

\* the most Items built at the top of the buffer, one after the other: each
\* has a third of the pieces
MaxTop == MaxPieces \div 3

Room == Len(m_buffer) < MaxPieces

Running == last_op.fault # "assert"

TopItems == {i \in 1..Len(m_buffer) : m_buffer[i].k = "item" /\ m_buffer[i].parent = 0}

\* the object being built has no list of type T yet: an object gets one
\* list of a kind
HasNo(T) ==
    stack # <<>> =>
        \A i \in 1..Len(m_buffer) :
            ~(m_buffer[i].k = "item" /\ m_buffer[i].type = T
                                     /\ m_buffer[i].parent = stack[Top(stack)].m_item)

\* a builder can be opened: inside the innermost open one, or at the top
Opens ==
    /\ Running
    /\ Len(m_buffer) <= MaxPieces
    /\ stack = <<>> => Cardinality(TopItems) < MaxTop

\* the strings the callers pass: short ones, the longest allowed and the
\* shortest refused, and one with a zero byte inside (for the calls that
\* take a length)
Short == Str("a", SizeT(0, 1))

Word == Str("highway", SizeT(0, 7))

Longest == Str("long", SizeOfInt(max_osm_string_length))

TooLong == Str("longer", SizeOfInt(max_osm_string_length + 1))

WithZero == <<[name |-> "x", len |-> SizeT(0, 1)], [name |-> "y", len |-> SizeT(0, 2)]>>

\* texts of 2^32 - 1 and 2^32 bytes
HugeTexts == {Str("huge", SizeT(65535, 65535)), Str("huger", SizeT(65536, 0))}

\* the tags added: keys and values of 1, 7, 1024 and 1025 bytes
Tags == {<<Short, Word>>, <<Longest, Short>>, <<TooLong, Short>>, <<Short, TooLong>>}

TagsWithZero == {<<WithZero, Short>>}

UserNames == {Short, Longest, TooLong}

Roles == {<<>>, Word, Longest, TooLong}

Texts == {Word} \cup HugeTexts

Refs == {1}

ObjectTypes == {"node", "way", "relation", "area"}

ListTypes == {"tag_list", "way_node_list", "outer_ring", "inner_ring",
              "relation_member_list", "changeset_discussion"}

\* the type of the Item the innermost open builder builds, "" for none
TopType == IF stack = <<>> THEN "" ELSE m_buffer[stack[Top(stack)].m_item].type

\* the Items that are complete
ClosedItems == {closed[c].item : c \in 1..Len(closed)}

\* what a call leaves behind; an Item whose builder is gone is complete, its
\* end is the end of the buffer, and the padding its destructor wrote is kept
Leaves(op, buf, stk, fault) ==
    LET done == {i \in 1..Len(buf) :
                    /\ buf[i].k = "item"
                    /\ i \notin ClosedItems
                    /\ \A j \in 1..Len(stk) : stk[j].m_item # i}
        item == CHOOSE i \in done : TRUE
        padding == IF Len(buf) > Len(m_buffer) /\ buf[Len(buf)].k = "padding"
                   THEN buf[Len(buf)].len ELSE 0
    IN  /\ last_op' = [op |-> op, fault |-> fault]
        /\ IF fault = "assert"
           THEN UNCHANGED <<m_buffer, stack, closed>>
           ELSE /\ m_buffer' = buf
                /\ stack' = stk
                /\ closed' = IF done = {} THEN closed
                             ELSE Append(closed, [item |-> item, stop |-> Written(buf),
                                                  padding |-> padding])
        /\ UNCHANGED <<file, pc, file_size, offset, err, m_block_starts, m_fd,
                       result, returned, repeated, wvars>>

Result(op, r) == Leaves(op, r.buf, r.stk, r.fault)

OpenObject ==
    /\ Opens /\ stack = <<>>
    /\ \E T \in ObjectTypes :
          LET r == OSMObjectBuilder(m_buffer, stack, T)
          IN  Leaves("OSMObjectBuilder", r.buf, r.stk, "none")

OpenChangeset ==
    /\ Opens /\ stack = <<>>
    /\ LET r == ChangesetBuilder(m_buffer, stack)
       IN  Leaves("ChangesetBuilder", r.buf, r.stk, "none")

SetUser ==
    /\ Running /\ TopType \in ObjectTypes
    /\ \E user \in UserNames : Result("set_user", set_user(m_buffer, stack, user, StrSize(user)))

SetUserChangeset ==
    /\ Running /\ TopType = "changeset"
    /\ \/ \E user \in UserNames :
             Result("set_user", ChangesetBuilder_set_user(m_buffer, stack, user))
       \/ \E user \in {WithZero} :
             Result("set_user", ChangesetBuilder_set_user_string(m_buffer, stack, user))

AddTags ==
    /\ Running /\ Room /\ TopType \in ObjectTypes /\ HasNo("tag_list")
    /\ \E tags \in {<<>>, <<<<Short, Word>>>>, <<<<Short, Word>>, <<TooLong, Short>>>>} :
          Result("add_tags", add_tags(m_buffer, stack, tags))

AddNodeRefs ==
    /\ Running /\ Room /\ TopType = "way" /\ HasNo("way_node_list")
    /\ \E nodes \in {<<>>, <<1, 2>>} :
          Result("add_node_refs", add_node_refs(m_buffer, stack, nodes))

CloseObject ==
    /\ Running /\ TopType \in ObjectTypes \cup {"changeset"}
    /\ Result("~Builder", Builder_dtor(m_buffer, stack))

OpenTagList ==
    /\ Opens /\ TopType \in {""} \cup ObjectTypes \cup {"changeset"} /\ HasNo("tag_list")
    /\ LET r == TagListBuilder(m_buffer, stack)
       IN  Leaves("TagListBuilder", r.buf, r.stk, "none")

AddTag ==
    /\ Running /\ Room /\ TopType = "tag_list"
    /\ \/ \E tag \in Tags :
             Result("add_tag", add_tag(m_buffer, stack, tag[1], tag[2]))
       \/ \E tag \in Tags \cup TagsWithZero :
             Result("add_tag", add_tag_length(m_buffer, stack, tag[1], tag[2]))
       \/ \E tag \in {<<Short, Word>>} :
             Result("add_tag", add_tag_Tag(m_buffer, stack, tag[1], tag[2]))

CloseTagList ==
    /\ Running /\ TopType = "tag_list"
    /\ Result("~TagListBuilder", TagListBuilder_dtor(m_buffer, stack))

OpenNodeRefList ==
    /\ Opens
    /\ \E T \in {"way_node_list", "outer_ring", "inner_ring"} :
          /\ TopType \in (IF T = "way_node_list" THEN {"", "way"} ELSE {"area"})
          /\ HasNo(T)
          /\ LET r == NodeRefListBuilder(m_buffer, stack, T)
             IN  Leaves("NodeRefListBuilder", r.buf, r.stk, "none")

AddNodeRef ==
    /\ Running /\ Room
    /\ TopType \in {"way_node_list", "outer_ring", "inner_ring"}
    /\ \E ref \in Refs : Result("add_node_ref", add_node_ref(m_buffer, stack, ref))

CloseNodeRefList ==
    /\ Running /\ TopType \in {"way_node_list", "outer_ring", "inner_ring"}
    /\ Result("~NodeRefListBuilder", NodeRefListBuilder_dtor(m_buffer, stack))

OpenMemberList ==
    /\ Opens /\ TopType \in {"", "relation"} /\ HasNo("relation_member_list")
    /\ LET r == RelationMemberListBuilder(m_buffer, stack)
       IN  Leaves("RelationMemberListBuilder", r.buf, r.stk, "none")

\* the size of the full member a caller passes: a node without tags
FullMemberSize == SizeOf("node") + min_size_for_user

AddMember ==
    /\ Running /\ Room
    /\ TopType = "relation_member_list"
    /\ \E type \in {"node"}, ref \in {1}, role \in Roles :
       \E full_member \in (IF role = Word THEN {0, FullMemberSize} ELSE {0}) :
          Result("add_member", add_member(m_buffer, stack, type, ref, role, full_member))

CloseMemberList ==
    /\ Running /\ TopType = "relation_member_list"
    /\ Result("~RelationMemberListBuilder", RelationMemberListBuilder_dtor(m_buffer, stack))

OpenDiscussion ==
    /\ Opens /\ TopType \in {"", "changeset"} /\ HasNo("changeset_discussion")
    /\ LET r == ChangesetDiscussionBuilder(m_buffer, stack)
       IN  Leaves("ChangesetDiscussionBuilder", r.buf, r.stk, "none")

AddComment ==
    /\ Running /\ Room
    /\ TopType = "changeset_discussion"
    /\ \E date \in {1}, uid \in {1}, user \in UserNames :
          Result("add_comment", add_comment(m_buffer, stack, date, uid, user))

AddCommentText ==
    /\ Running /\ Room /\ TopType = "changeset_discussion"
    /\ \E text \in Texts :
          Result("add_comment_text", add_comment_text(m_buffer, stack, text))

CloseDiscussion ==
    /\ Running /\ TopType = "changeset_discussion"
    /\ Result("~ChangesetDiscussionBuilder", ChangesetDiscussionBuilder_dtor(m_buffer, stack))

NextBuild ==
    \/ OpenObject \/ OpenChangeset \/ SetUser \/ SetUserChangeset
    \/ AddTags \/ AddNodeRefs \/ CloseObject
    \/ OpenTagList \/ AddTag \/ CloseTagList
    \/ OpenNodeRefList \/ AddNodeRef \/ CloseNodeRefList
    \/ OpenMemberList \/ AddMember \/ CloseMemberList
    \/ OpenDiscussion \/ AddComment \/ AddCommentText \/ CloseDiscussion

\* an empty buffer and no builder; no file is looked at
InitBuild ==
    /\ file = <<>>
    /\ TableUnopened
    /\ NoWorkers
    /\ NoBuilders

SpecBuild == InitBuild /\ [][NextBuild]_vars

(***************************************************************************)
(* The author-name setters, called on the outermost builder with names of  *)
(* every kind, through every overload, before and after a list was opened  *)
(* inside it and while one is open.                                        *)
(***************************************************************************)
\* the empty name, and names of 2^16 - 2 and 2^16 - 1 bytes
Empty == <<>>

Most == Str("most", SizeT(0, 65534))

All == Str("all", SizeT(0, 65535))

AuthorNames == {Empty, Short, Word, TooLong, Most, All}

\* the outermost open builder alone, and the type of its Item
Outer == SubSeq(stack, 1, 1)

OuterType == IF stack = <<>> THEN "" ELSE m_buffer[stack[1].m_item].type

\* the most calls of set_user that return on one builder: as many as there
\* are Items built at the top of the buffer
MaxCalls == MaxTop

\* set_user has not returned MaxCalls times on the outermost builder
MayCall == m_buffer[stack[1].m_item + 1].calls < MaxCalls

\* a call on the outermost builder leaves the builders inside it open
OnOuter(r) == [buf |-> r.buf, stk |-> stack, fault |-> r.fault]

SetAuthor ==
    /\ Running /\ OuterType \in ObjectTypes /\ MayCall
    /\ \E user \in AuthorNames :
          \/ Result("set_user", OnOuter(set_user(m_buffer, Outer, user, StrSize(user))))
          \/ Result("set_user", OnOuter(set_user_length(m_buffer, Outer, user,
                                                        string_size_type(StrSize(user)))))

SetAuthorChangeset ==
    /\ Running /\ OuterType = "changeset" /\ MayCall
    /\ \E user \in AuthorNames :
          \/ Result("set_user", OnOuter(ChangesetBuilder_set_user(m_buffer, Outer, user)))
          \/ Result("set_user", OnOuter(ChangesetBuilder_set_user_string(m_buffer, Outer, user)))
          \/ Result("set_user", OnOuter(ChangesetBuilder_set_user_length(m_buffer, Outer, user,
                                                        string_size_type(StrSize(user)))))

\* the objects an area is initialized from: a way of a named user, and a
\* deleted relation with a negative id of a user without name
SourceObjects ==
    {[type |-> "way", id |-> 7, version |-> 2, changeset |-> 3, timestamp |-> 4,
      visible |-> TRUE, uid |-> 5, user |-> Word],
     [type |-> "relation", id |-> -7, version |-> 1, changeset |-> 6, timestamp |-> 8,
      visible |-> FALSE, uid |-> 0, user |-> Empty]}

InitializeFromObject ==
    /\ Running /\ OuterType = "area" /\ MayCall
    /\ \E source \in SourceObjects :
          Result("initialize_from_object",
                 OnOuter(initialize_from_object(m_buffer, Outer, source)))

\* one object or changeset is built in a buffer, at its start or behind
\* lists
NoObjectYet == \A i \in TopItems : m_buffer[i].type \in ListTypes

BuildObject == NoObjectYet /\ OpenObject

BuildChangeset == NoObjectYet /\ OpenChangeset

\* the object or changeset, its author name and the lists inside it
NextUser ==
    \/ BuildObject \/ BuildChangeset \/ SetAuthor \/ SetAuthorChangeset \/ CloseObject
    \/ InitializeFromObject
    \/ OpenTagList \/ AddTag \/ CloseTagList
    \/ OpenNodeRefList \/ AddNodeRef \/ CloseNodeRefList
    \/ OpenMemberList \/ AddMember \/ CloseMemberList
    \/ OpenDiscussion \/ AddComment \/ CloseDiscussion

SpecUser == InitBuild /\ [][NextUser]_vars

(***************************************************************************)
(* What the file's description says, read without the scanner: the number  *)
(* a length prefix holds, where a body starts, which blocks the scan has   *)
(* passed.                                                                 *)
(***************************************************************************)
\* the upper and the lower half of a prefix, as unsigned big-endian numbers
PrefixHigh(pre) == pre[1] * 256 + pre[2]

PrefixLow(pre) == pre[3] * 256 + pre[4]

\* h > 64 for the unsigned big-endian number h of the prefix
OverSmallBound(pre) ==
    PrefixHigh(pre) > 0 \/ PrefixLow(pre) > max_small_blob_header_size

\* the bytes of the first n blocks: 4 + header length + datasize of each
RECURSIVE SumBlockBytes(_, _)
SumBlockBytes(blocks, n) ==
    IF n = 0 THEN 0
    ELSE SumBlockBytes(blocks, n - 1)
         + 4 + PrefixLow(blocks[n].pre) + blocks[n].datasize

\* the byte offset of the body of block k
BodyOffsetOf(blocks, k) ==
    SumBlockBytes(blocks, k - 1) + 4 + PrefixLow(blocks[k].pre)

\* the blocks that lie wholly before the scan's offset: those the scan has
\* accepted and skipped
Digested ==
    Cardinality({ k \in 1..Len(file.blocks) :
                    file.blocks[k].start + BlockLen(file.blocks[k]) <= offset })

\* construction has thrown while it was digesting a block of the description
FailedAtBlock ==
    /\ pc \in {"throwing", "failed"}
    /\ Digested < Len(file.blocks)

\* the block that construction was digesting when it threw
FailingBlock == file.blocks[Digested + 1]

\* the prefix and the header message of the failing block are all in the file
FailingHeaderIntact ==
    /\ ~OverSmallBound(FailingBlock.pre)
    /\ FailingBlock.start + 4 + PrefixLow(FailingBlock.pre) <= file.size

\* one header block and K >= 0 data blocks, each with the type of its place
\* and a datasize within the bounds, and the file holds all their bytes
WellFormed(f) ==
    /\ Len(f.blocks) >= 1
    /\ \A k \in 1..Len(f.blocks) :
         /\ ~OverSmallBound(f.blocks[k].pre)
         /\ f.blocks[k].has_type /\ f.blocks[k].type = TypeAt(k)
         /\ f.blocks[k].has_datasize
         /\ f.blocks[k].datasize >= 1 /\ f.blocks[k].datasize <= max_block_size
    /\ f.size = SumBlockBytes(f.blocks, Len(f.blocks))

\* the file ends strictly inside its last block
CutShort(f) == f.size < TotalLen(f.blocks)

(***************************************************************************)
(* Index construction: C1 .. C6                                            *)
(***************************************************************************)
\* C1: after a successful construction the table holds one entry per block
\* after the first, in file order; entry k has the datasize the k-th data
\* block declares, the byte offset of that block's body (4 + header length +
\* datasize of every block before it, plus 4 + its own header length) and both
\* first-item fields unknown.  Construction on a well-formed container of one
\* header block and K >= 0 data blocks does not fail.
C1_IndexOfDataBlocks ==
    /\ pc = "ready" =>
         /\ Len(file.blocks) >= 1
         /\ Len(m_block_starts) = Len(file.blocks) - 1
         /\ \A k \in 1..Len(m_block_starts) :
              m_block_starts[k] =
                  [file_offset |-> BodyOffsetOf(file.blocks, k + 1),
                   first_item_id_or_zero |-> 0,
                   datasize |-> file.blocks[k + 1].datasize,
                   first_item_type_or_zero |-> undefined]
    /\ WellFormed(file) => pc \notin {"throwing", "failed"}

\* a well-formed container with two data blocks of different datasizes has
\* been indexed
C1_TwoBlocksIndexed ==
    /\ pc = "ready"
    /\ WellFormed(file)
    /\ Len(m_block_starts) = 2
    /\ m_block_starts[1].datasize = max_block_size
    /\ m_block_starts[2].datasize = 1

\* C2: when the file is cut short at a byte strictly inside a block (its
\* length prefix, its header message or its body), construction never
\* returns a table: it ends failed, and no entry is kept.
C2_CutFileFails ==
    CutShort(file) =>
        /\ pc \notin {"ready", "destroyed"}
        /\ pc = "failed" => m_block_starts = <<>>

\* a file cut inside the body of its second data block, after two blocks
\* that were digested, has failed at the constructor's final check
C2_CutInLastBody ==
    /\ pc = "failed"
    /\ CutShort(file)
    /\ err = ErrFileSize
    /\ Len(file.blocks) = 3
    /\ Digested = 3

\* C3: no block that declares a datasize over max_block_size is accepted;
\* construction that meets such a block (its header in the file, its type the
\* expected one) fails with the block-size error however many blocks came
\* before, and keeps no entry; that error is raised for no datasize up to
\* and including the bound.
C3_BlockSizeBound ==
    /\ \A k \in 1..Digested : file.blocks[k].datasize <= max_block_size
    /\ (FailedAtBlock /\ err = ErrBlockSize) =>
         FailingBlock.datasize > max_block_size
    /\ ( /\ FailedAtBlock
         /\ FailingHeaderIntact
         /\ FailingBlock.has_type /\ FailingBlock.type = TypeAt(Digested + 1)
         /\ FailingBlock.has_datasize /\ FailingBlock.datasize > max_block_size )
       => err = ErrBlockSize
    /\ pc = "failed" => m_block_starts = <<>>

\* construction has failed on a third block over the bound, after a data
\* block of exactly the bound was accepted
C3_TooLargeAfterValid ==
    /\ pc = "failed"
    /\ err = ErrBlockSize
    /\ Digested = 2
    /\ file.blocks[2].datasize = max_block_size
    /\ FailingBlock.datasize = max_block_size + 1
    /\ m_block_starts = <<>>

\* C4: every block the scan accepts has a type string exactly equal to the
\* one expected at its position, "OSMHeader" for the first block and
\* "OSMData" for every later one.
C4_OnlyExactTypeAccepted ==
    \A k \in 1..Digested :
        file.blocks[k].has_type /\ file.blocks[k].type = TypeAt(k)

\* a table was built over a file whose first block has the type "OSM"
C4_PrefixTypeIndexed ==
    /\ pc = "ready"
    /\ file.blocks[1].type = <<"O", "S", "M">>
    /\ Len(m_block_starts) = 1

\* C5: with h the unsigned big-endian number of a block's 4-byte prefix,
\* construction fails on the prefix if and only if h > 64, whatever the four
\* bytes are; an accepted prefix is taken as the header length h.
C5_SmallBoundOnPrefix ==
    /\ \A k \in 1..Digested : ~OverSmallBound(file.blocks[k].pre)
    /\ (FailedAtBlock /\ FailingBlock.start + 4 <= file.size) =>
         (err = ErrSmallSize <=> OverSmallBound(FailingBlock.pre))
    /\ pc \in {"data", "ready"} =>
         offset = SumBlockBytes(file.blocks, Digested)

\* a header block with h = 64 was accepted and the data block after it, its
\* prefix 00 00 00 80, refused
C5_HighBitRefused ==
    /\ pc = "failed"
    /\ err = ErrSmallSize
    /\ Digested = 1
    /\ file.blocks[1].pre = <<0, 0, 0, max_small_blob_header_size>>
    /\ FailingBlock.pre = <<0, 0, 0, 128>>

\* C6: no block whose datasize is absent or zero is accepted, the header
\* block as little as a data block; construction that meets one (its header
\* in the file) fails with the datasize error, and the table then holds the
\* entries of the data blocks before it and none for that block.
C6_DataSizeRequired ==
    /\ \A k \in 1..Digested :
         file.blocks[k].has_datasize /\ file.blocks[k].datasize # 0
    /\ ( /\ FailedAtBlock
         /\ FailingHeaderIntact
         /\ (~FailingBlock.has_datasize \/ FailingBlock.datasize = 0) )
       => err = ErrDataSize
    /\ (pc = "throwing" /\ err = ErrDataSize) =>
         /\ ~FailingBlock.has_datasize \/ FailingBlock.datasize = 0
         /\ Len(m_block_starts) = (IF Digested = 0 THEN 0 ELSE Digested - 1)

\* construction is failing on a second data block without a datasize, the
\* entry of the first data block in the table
C6_AbsentDataSize ==
    /\ pc = "throwing"
    /\ err = ErrDataSize
    /\ Digested = 2
    /\ ~FailingBlock.has_datasize
    /\ Len(m_block_starts) = 1

(***************************************************************************)
(* On-demand decode: C7 .. C10                                             *)
(***************************************************************************)
\* the entry's first-item fields are resolved, not unknown
Resolved(block_start) == block_start.first_item_type_or_zero # undefined

\* the first-item fields of both entries are the same
SameFirstItem(e1, e2) ==
    /\ e1.first_item_id_or_zero = e2.first_item_id_or_zero
    /\ e1.first_item_type_or_zero = e2.first_item_type_or_zero

\* the entry's first-item fields are the id and kind of the buffer's first item
FirstItemFrom(block_start, buffer) ==
    /\ block_start.first_item_id_or_zero = buffer[1].id
    /\ block_start.first_item_type_or_zero = buffer[1].type

\* get_parsed_block(block_index, flags) has returned before with these flags
\* and the file is as it was then
ReturnedBefore(block_index, read_metadata) ==
    \E t \in returned : t[1] = block_index /\ t[2] = read_metadata

\* a step in which get_parsed_block is called: the table exists before and
\* after it and the file is as it was; result' holds the call's index, flags
\* and outcome
CallStep ==
    /\ pc = "ready" /\ pc' = "ready"
    /\ file' = file
    /\ result'.called

\* C7: a call get_parsed_block(i, flags) that follows one with the same i and
\* flags on the unchanged file returns, and returns the content the earlier
\* call returned, and leaves entry i as it was; every call that returns a
\* non-empty block leaves the first-item id and kind of entry i resolved.
C7_SecondCallSame ==
    [][CallStep =>
         LET i == result'.block_index
             flags == result'.read_metadata
         IN  /\ ReturnedBefore(i, flags) =>
                  /\ result'.err = NoError
                  /\ <<i, flags, result'.buffer>> \in returned
                  /\ m_block_starts'[i + 1] = m_block_starts[i + 1]
             /\ (result'.err = NoError /\ result'.buffer # <<>>) =>
                  Resolved(m_block_starts'[i + 1])]_vars

\* a second call with the same index and flags has returned a non-empty
\* block, the entry resolved
C7_SecondCallReturned ==
    /\ result.called
    /\ result.err = NoError
    /\ result.buffer # <<>>
    /\ repeated
    /\ Resolved(m_block_starts[result.block_index + 1])

\* C8: every entry's first-item fields are unknown until get_parsed_block is
\* called; an unknown entry becomes resolved in exactly the calls on its index
\* that decode a block with at least one item, and takes the id and kind of
\* the first item of that result; it stays unknown when the decoded block is
\* empty; a resolved entry keeps its id and kind for good.
C8_FirstItemOneWay ==
    /\ [](((pc \in {"header", "data"}) \/ (pc = "ready" /\ ~result.called)) =>
            \A k \in 1..Len(m_block_starts) :
                /\ ~Resolved(m_block_starts[k])
                /\ m_block_starts[k].first_item_id_or_zero = 0)
    /\ [][(pc = "ready" /\ pc' = "ready") =>
            \A k \in 1..Len(m_block_starts) :
                LET called == CallStep /\ result'.block_index = k - 1
                    decoded == called /\ result'.err = NoError
                IN  /\ Resolved(m_block_starts[k]) =>
                          SameFirstItem(m_block_starts'[k], m_block_starts[k])
                    /\ (~Resolved(m_block_starts[k]) /\ decoded /\ result'.buffer # <<>>) =>
                          /\ Resolved(m_block_starts'[k])
                          /\ FirstItemFrom(m_block_starts'[k], result'.buffer)
                    /\ (~Resolved(m_block_starts[k]) /\ ~(decoded /\ result'.buffer # <<>>)) =>
                          SameFirstItem(m_block_starts'[k], m_block_starts[k])]_vars

\* a call has decoded an empty block and left its entry unknown, while the
\* entry of a block of two items is resolved to the first of them
C8_EmptyStaysUnknown ==
    /\ result.called
    /\ result.err = NoError
    /\ result.buffer = <<>>
    /\ ~Resolved(m_block_starts[result.block_index + 1])
    /\ \E k \in 1..Len(m_block_starts) :
         /\ m_block_starts[k].first_item_type_or_zero = "way"
         /\ m_block_starts[k].first_item_id_or_zero = 7

\* C9: while the table exists, no step changes the number of entries or any
\* entry's file_offset or datasize, and a call get_parsed_block(i, flags)
\* leaves every entry other than entry i entirely unchanged.
C9_TableFrame ==
    [][(pc = "ready" /\ pc' = "ready") =>
         /\ Len(m_block_starts') = Len(m_block_starts)
         /\ \A k \in 1..Len(m_block_starts) :
              /\ m_block_starts'[k].file_offset = m_block_starts[k].file_offset
              /\ m_block_starts'[k].datasize = m_block_starts[k].datasize
         /\ CallStep =>
                \A k \in 1..Len(m_block_starts) :
                    k # result'.block_index + 1 =>
                        m_block_starts'[k] = m_block_starts[k]]_vars

\* a call on the second of two entries has resolved it and the first entry
\* is still unknown
C9_OnlyCalledEntryChanged ==
    /\ result.called
    /\ result.block_index = 1
    /\ Len(m_block_starts) = 2
    /\ Resolved(m_block_starts[2])
    /\ ~Resolved(m_block_starts[1])

\* C10: a call get_parsed_block(i, flags) fails with "unexpected EOF" when
\* the file holds fewer than datasize bytes from the entry's file_offset, and
\* with the decoder's error when the bytes are there and the decoder refuses
\* them; a call fails in no other case, and a failed call returns no buffer
\* and leaves every entry as it was.
C10_FailedCallChangesNothing ==
    [][CallStep =>
           LET i == result'.block_index
               short == m_block_starts[i + 1].file_offset
                          + m_block_starts[i + 1].datasize > file.size
               refused == file.blocks[i + 2].body.corrupt
           IN  /\ short => result'.err = ErrEofBlock
               /\ (~short /\ refused) => result'.err = ErrDecode
               /\ result'.err # NoError =>
                    /\ short \/ refused
                    /\ result'.buffer = <<>>
                    /\ m_block_starts' = m_block_starts]_vars

\* a call has failed with "unexpected EOF" on a block that was decoded
\* before the file shrank: its entry is still resolved
C10_EofAfterShrink ==
    /\ result.called
    /\ result.err = ErrEofBlock
    /\ Resolved(m_block_starts[result.block_index + 1])

\* the kind and id of every item of a buffer, in order
KindsAndIds(buffer) ==
    [k \in 1..Len(buffer) |-> [type |-> buffer[k].type, id |-> buffer[k].id]]

\* C11: every call get_parsed_block(i, flags) that returns, returns the
\* entities of every kind that block i holds, in the block's order, whatever
\* the flags are; the flags reach the decoder unchanged and decide only
\* whether the entities carry their metadata; the first-item fields the call
\* resolves are those of the block's first entity, whatever the flags are.
C11_AllKindsWhateverFlags ==
    [][(CallStep /\ result'.err = NoError) =>
         LET i == result'.block_index
             items == file.blocks[i + 2].body.items
         IN  /\ KindsAndIds(result'.buffer) = items
             /\ \A k \in 1..Len(result'.buffer) :
                    result'.buffer[k].meta = (result'.read_metadata = "yes")
             /\ (~Resolved(m_block_starts[i + 1]) /\ items # <<>>) =>
                    FirstItemFrom(m_block_starts'[i + 1], items)]_vars

\* a call without metadata has returned a block of a way and a relation,
\* and resolved the entry to the way
C11_WayBlockWithoutMeta ==
    /\ result.called
    /\ result.err = NoError
    /\ result.read_metadata = "no"
    /\ KindsAndIds(result.buffer) = <<Item("way", 7), Item("relation", 3)>>
    /\ m_block_starts[result.block_index + 1].first_item_type_or_zero = "way"

\* the entry of its table that the call of worker w is on
EntryOf(w) == tables[TableOf(w)].m_block_starts[calls[w].block_index + 1]

\* the call of worker w has read, and from another offset than its entry's
ReadElsewhere(w) ==
    /\ calls[w].pc \in {"read", "done"}
    /\ calls[w].from # EntryOf(w).file_offset

\* C12: when every worker calls get_parsed_block on a table and file handle
\* of its own, every call reads from its own entry's file_offset, returns
\* the entities of its own block, and every resolved entry holds the first
\* item of its own block, however the calls interleave.  (On one shared
\* table a call can read from another offset: C12_SharedCursorMisread.)
C12_OwnTableReadsOwnBlock ==
    ~shared =>
        /\ \A w \in Workers :
             /\ ~ReadElsewhere(w)
             /\ (calls[w].pc = "done" /\ calls[w].err = NoError) =>
                    KindsAndIds(calls[w].buffer)
                        = file.blocks[calls[w].block_index + 2].body.items
        /\ \A w \in Workers :
             \A k \in 1..Len(tables[w].m_block_starts) :
                Resolved(tables[w].m_block_starts[k]) =>
                    FirstItemFrom(tables[w].m_block_starts[k],
                                  file.blocks[k + 1].body.items)

\* on one shared table, a call has read from another offset than its
\* entry's, returned another block's entities and filled its entry's
\* first-item fields from them
C12_SharedCursorMisread ==
    /\ shared
    /\ \E w \in Workers :
         /\ ReadElsewhere(w)
         /\ calls[w].pc = "done"
         /\ calls[w].err = NoError
         /\ Resolved(EntryOf(w))
         /\ ~FirstItemFrom(EntryOf(w), file.blocks[calls[w].block_index + 2].body.items)

\* the start of the Item of the open builder at position j, and the end of
\* its extent: start + stored content-length
StartOf(j) == OffsetOf(m_buffer, stack[j].m_item)

ExtentEnd(j) == StartOf(j) + size(m_buffer, stack, j)

\* C13: whatever the builders were called with, the extent (start + stored
\* content-length) of every open builder's Item, the innermost and each of
\* its ancestors, ends at the end of the bytes written: it covers every
\* byte written for the Item and its descendants, and every call has added
\* the bytes it wrote to the builder called and to each ancestor alike.
C13_AncestorsCoverDescendants ==
    \A j \in 1..Len(stack) : ExtentEnd(j) = Written(m_buffer)

\* something was added to a list that is nested in an object, and the
\* object has set_user and the list's bytes in its content-length
C13_NestedListAdded ==
    /\ Len(stack) = 2
    /\ m_buffer[stack[2].m_item].added # <<>>
    /\ m_buffer[stack[2].m_item].type \in {"way_node_list", "relation_member_list",
                                          "tag_list", "changeset_discussion"}
    /\ size(m_buffer, stack, 1) > size(m_buffer, stack, 2) + SizeOf(m_buffer[stack[1].m_item].type)
                                   + min_size_for_user
    /\ last_op.op \in {"add_node_ref", "add_member", "add_tag", "add_comment_text"}

\* the Items in the buffer, by the piece that starts them
Items == {i \in 1..Len(m_buffer) : m_buffer[i].k = "item"}

\* b is the sibling that follows a: the next Item with the same parent
NextSibling(a, b) ==
    /\ a < b
    /\ m_buffer[a].parent = m_buffer[b].parent
    /\ \A c \in Items : (a < c /\ c < b) => m_buffer[c].parent # m_buffer[a].parent

\* the members of the member list a, and the member that follows member m
MembersOf(a) ==
    {m \in 1..Len(m_buffer) :
        /\ m_buffer[m].k = "member"
        /\ a < m
        /\ \A c \in Items : c < m => c <= a}

NextMember(a, m, n) ==
    /\ m \in MembersOf(a) /\ n \in MembersOf(a) /\ m < n
    /\ \A c \in MembersOf(a) : ~(m < c /\ c < n)

\* the last written of a set of pieces
Latest(pieces) == CHOOSE x \in pieces : \A y \in pieces : y <= x

\* RelationMember::next(): the member, its padded role, and the full member
\* if it has one
MemberStep(m) ==
    SizeOf("RelationMember") + padded_length(m_buffer[m].role_size)
        + (IF m_buffer[m].full THEN padded_length(FullMemberSize) ELSE 0)

\* C14: for every Item built and every Item that follows it as the next
\* sibling (at the top of the buffer or inside the same parent), the start
\* of the Item plus its stored content-length rounded up to the alignment
\* unit is the start of the sibling; and inside a member list, a member's
\* start plus the member record and its padded role (and its full member)
\* is the start of the next member.  This holds for node-ref lists and
\* member lists of every number of entries.
C14_StepLandsOnNextSibling ==
    /\ \A b \in Items :
          LET before == {a \in 1..(b - 1) :
                            /\ m_buffer[a].k = "item"
                            /\ m_buffer[a].parent = m_buffer[b].parent}
          IN  before # {} =>
                  OffsetOf(m_buffer, b)
                      = OffsetOf(m_buffer, Latest(before))
                            + padded_length(m_buffer[Latest(before)].size)
    /\ \A n \in 1..Len(m_buffer) :
          LET before == {m \in 1..(n - 1) : m_buffer[m].k \in {"member", "item"}}
          IN  (m_buffer[n].k = "member" /\ m_buffer[Latest(before)].k = "member") =>
                  OffsetOf(m_buffer, n)
                      = OffsetOf(m_buffer, Latest(before)) + MemberStep(Latest(before))

\* a relation's member list with a member whose role was padded is followed
\* by a sibling inside the relation
C14_SiblingAfterPaddedMembers ==
    \E a \in Items, b \in Items, m \in 1..Len(m_buffer) :
        /\ NextSibling(a, b)
        /\ m_buffer[a].type = "relation_member_list"
        /\ m_buffer[a].parent # 0
        /\ m \in MembersOf(a)
        /\ m_buffer[m].role_size % align_bytes # 0
        /\ m_buffer[b].type = "tag_list"

\* C15: whenever no builder is open (every builder without parent that was
\* opened has been closed), the end of the bytes written is a multiple of
\* the alignment unit, whatever was added before the builder was closed,
\* nothing included.
C15_TopLevelEndAligned ==
    stack = <<>> => Written(m_buffer) % align_bytes = 0

\* a builder without parent has just been closed, its content-length is no
\* multiple of the alignment unit and its destructor wrote the padding
C15_TopLevelClosedWithPadding ==
    /\ stack = <<>>
    /\ closed # <<>>
    /\ m_buffer[closed[Len(closed)].item].parent = 0
    /\ m_buffer[closed[Len(closed)].item].size % align_bytes # 0
    /\ closed[Len(closed)].padding > 0

\* the start of a completed Item, by its record in closed
ClosedStart(c) == OffsetOf(m_buffer, closed[c].item)

ClosedSize(c) == m_buffer[closed[c].item].size

ZeroTerminated(s) == IF s = <<>> THEN Str("", SizeT(0, 0)) ELSE s

\* the zero-terminated strings from piece p up to the offset stop
RECURSIVE StringsFrom(_, _)
StringsFrom(p, stop) ==
    IF p > Len(m_buffer) \/ OffsetOf(m_buffer, p) >= stop THEN <<>>
    ELSE (IF m_buffer[p].k = "str" THEN ZeroTerminated(m_buffer[p].s) ELSE <<>>)
             \o StringsFrom(p + 1, stop)

\* what is read as a value when the list ends after a key
Beyond == Str("beyond the list", SizeT(0, 0))

\* the strings taken two by two
RECURSIVE PairUp(_)
PairUp(strings) ==
    IF strings = <<>> THEN <<>>
    ELSE IF Len(strings) = 1 THEN << << <<strings[1]>>, Beyond >> >>
    ELSE << << <<strings[1]>>, <<strings[2]>> >> >> \o PairUp(SubSeq(strings, 3, Len(strings)))

\* the (key, value) pairs that iterating the tag list at piece a yields
TagsOf(a) == PairUp(StringsFrom(a + 1, OffsetOf(m_buffer, a) + m_buffer[a].size))

\* the tag lists that are complete
ClosedTagLists == {a \in ClosedItems : m_buffer[a].type = "tag_list"}

\* no key and no value added to the list at a has a zero byte inside
ZeroFree(a) ==
    \A t \in 1..Len(m_buffer[a].added) :
        Len(m_buffer[a].added[t][1]) = 1 /\ Len(m_buffer[a].added[t][2]) = 1

\* C17 as stated: iterating a complete tag list yields exactly the (key,
\* value) pairs of the successful add_tag calls, in their order, whatever
\* was added.
C17_IterationYieldsAdded ==
    \A a \in ClosedTagLists : TagsOf(a) = m_buffer[a].added

\* C17, amended: iterating a complete tag list yields exactly the (key,
\* value) pairs of the successful add_tag calls, in their order, none lost,
\* duplicated or merged, when no key and no value added has a zero byte
\* inside (the calls that take a length or a std::string accept them).
C17_IterationYieldsZeroFreeAdded ==
    \A a \in ClosedTagLists : ZeroFree(a) => TagsOf(a) = m_buffer[a].added

\* a complete tag list of two tags without zero bytes, one of them with a
\* key of the greatest length
C17_TwoTagsRead ==
    \E a \in ClosedTagLists :
        /\ Len(m_buffer[a].added) = 2
        /\ ZeroFree(a)
        /\ \E t \in 1..2 : m_buffer[a].added[t][1] = Longest
        /\ m_buffer[a].added[1] # m_buffer[a].added[2]

\* the std::length_error messages of the builders
LengthErrors == {"OSM tag key is too long", "OSM tag value is too long",
                 "OSM relation member role is too long", "OSM user name is too long",
                 "OSM changeset comment is too long"}

\* longer than max_osm_string_length
OverLong(length) == SizeGt(length, SizeOfInt(max_osm_string_length))

\* the piece p is the header of an Item whose builder is open
OpenItem(p) == \E j \in 1..Len(stack) : stack[j].m_item = p

\* in buf, everything written so far is as it is now: every tag, node ref,
\* member, comment and padding, and every Item that is complete; only the
\* headers of the Items still being built may differ
KeepsWritten(buf) ==
    /\ Len(buf) >= Len(m_buffer)
    /\ \A p \in 1..Len(m_buffer) : ~OpenItem(p) => buf[p] = m_buffer[p]

\* r is a length error that kept what was written if refused, a return if not
RaisesIff(r, refused, what) ==
    /\ refused => (r.fault = what /\ r.fault \in LengthErrors /\ KeepsWritten(r.buf))
    /\ ~refused => r.fault = "none"

\* C18: wherever the builders stand, add_tag with a key or a value, and
\* add_member with a role, and add_comment with an author name longer than
\* max_osm_string_length throw std::length_error, and with lengths up to
\* and including max_osm_string_length return; after the throw every
\* tag, member, comment and complete Item written before the call is in
\* the buffer as it was.
C18_TooLongRaisesAndKeeps ==
    /\ TopType = "tag_list" =>
          \A tag \in Tags \cup TagsWithZero :
             /\ RaisesIff(add_tag_length(m_buffer, stack, tag[1], tag[2]),
                          OverLong(StrSize(tag[1])) \/ OverLong(StrSize(tag[2])),
                          IF OverLong(StrSize(tag[1])) THEN "OSM tag key is too long"
                          ELSE "OSM tag value is too long")
             /\ RaisesIff(add_tag(m_buffer, stack, CStr(tag[1]), CStr(tag[2])),
                          OverLong(strlen(tag[1])) \/ OverLong(strlen(tag[2])),
                          IF OverLong(strlen(tag[1])) THEN "OSM tag key is too long"
                          ELSE "OSM tag value is too long")
    /\ TopType = "relation_member_list" =>
          \A role \in Roles, full_member \in {0, FullMemberSize} :
             RaisesIff(add_member(m_buffer, stack, "node", 1, role, full_member),
                       OverLong(StrSize(role)), "OSM relation member role is too long")
    /\ (TopType = "changeset_discussion" /\ stack[Top(stack)].m_comment = 0) =>
          \A user \in UserNames :
             RaisesIff(add_comment(m_buffer, stack, 1, 1, user),
                       OverLong(strlen(user)), "OSM user name is too long")

\* add_member has thrown for its role in a list that holds a member with a
\* role of the greatest length
C18_RoleRefusedAfterMember ==
    /\ TopType = "relation_member_list"
    /\ last_op = [op |-> "add_member", fault |-> "OSM relation member role is too long"]
    /\ \E t \in 1..Len(m_buffer[stack[Top(stack)].m_item].added) :
          m_buffer[stack[Top(stack)].m_item].added[t][2] = Longest

\* the innermost open builder is a discussion builder
InDiscussion == TopType = "changeset_discussion"

\* its m_comment is set: add_comment was called and add_comment_text not yet
Pending == stack[Top(stack)].m_comment # 0

\* C19: after add_comment or add_comment_text of a discussion builder has
\* thrown a length_error, the builder has no pending comment, and neither
\* a following add_comment nor the destructor fails an assertion.
C19_NoPendingAfterLengthError ==
    (InDiscussion /\ last_op.op \in {"add_comment", "add_comment_text"}
                  /\ last_op.fault \in LengthErrors) =>
        /\ ~Pending
        /\ \A user \in UserNames : add_comment(m_buffer, stack, 1, 1, user).fault # "assert"
        /\ ChangesetDiscussionBuilder_dtor(m_buffer, stack).fault # "assert"

\* add_comment threw for the author name, and the destructor that ran next
\* failed its assertion
C19_AbortAfterRefusedName ==
    /\ InDiscussion
    /\ Pending
    /\ m_buffer[stack[Top(stack)].m_comment].user_size = 0
    /\ last_op = [op |-> "~ChangesetDiscussionBuilder", fault |-> "assert"]

\* the last call on the discussion builder was add_comment: a comment was
\* begun and not ended
Begun == last_op.op = "add_comment"

\* C20: on a discussion builder, add_comment and add_comment_text must take
\* turns, add_comment first.  After add_comment, another add_comment and
\* the destructor fail the assertion and add_comment_text does not; at the
\* start and after add_comment_text, add_comment_text fails the assertion
\* and neither add_comment nor the destructor does.  So no sequence that
\* takes turns and ends after an add_comment_text fails an assertion.
C20_BeginAndEndTakeTurns ==
    (InDiscussion /\ Running) =>
        /\ Begun =>
              /\ \A user \in UserNames :
                    add_comment(m_buffer, stack, 1, 1, user).fault = "assert"
              /\ ChangesetDiscussionBuilder_dtor(m_buffer, stack).fault = "assert"
              /\ \A text \in Texts :
                    add_comment_text(m_buffer, stack, text).fault # "assert"
        /\ ~Begun =>
              /\ \A text \in Texts :
                    add_comment_text(m_buffer, stack, text).fault = "assert"
              /\ \A user \in UserNames :
                    add_comment(m_buffer, stack, 1, 1, user).fault # "assert"
              /\ ChangesetDiscussionBuilder_dtor(m_buffer, stack).fault = "none"

\* one comment was begun and ended and a second one begun
C20_SecondCommentBegun ==
    /\ InDiscussion
    /\ Running
    /\ last_op = [op |-> "add_comment", fault |-> "none"]
    /\ Len(m_buffer[stack[Top(stack)].m_item].added) = 1

\* the outermost builder builds an object or a changeset
OnObject == Running /\ OuterType \in ObjectTypes \cup {"changeset"}

\* set_user has returned on the outermost builder
Named == m_buffer[stack[1].m_item + 1].calls > 0

\* a builder was opened inside the outermost one
Nested ==
    \E p \in 1..Len(m_buffer) :
        m_buffer[p].k = "item" /\ m_buffer[p].parent = stack[1].m_item

\* what the overloads of set_user of the outermost builder do for a name
SetterFaults(user) ==
    IF OuterType = "changeset"
    THEN {ChangesetBuilder_set_user(m_buffer, Outer, user).fault,
          ChangesetBuilder_set_user_string(m_buffer, Outer, user).fault,
          ChangesetBuilder_set_user_length(m_buffer, Outer, user,
                                           string_size_type(StrSize(user))).fault}
    ELSE {set_user(m_buffer, Outer, user, StrSize(user)).fault,
          set_user_length(m_buffer, Outer, user, string_size_type(StrSize(user))).fault}

\* C21: on an object builder and on the changeset builder, once set_user
\* has returned (whatever name it set, the empty one included) or a nested
\* builder was opened on the object, every call of set_user fails its
\* assertion.
C21_SecondAndLateCallsFault ==
    (OnObject /\ (Named \/ Nested)) =>
        \A user \in AuthorNames \cup UserNames : SetterFaults(user) = {"assert"}

\* set_user has returned twice on one builder, and the second call set a
\* name of one byte
C21_SecondCallReturned ==
    /\ OnObject
    /\ m_buffer[stack[1].m_item + 1].calls = 2
    /\ m_buffer[stack[1].m_item + 1].name.n = 1
    /\ last_op = [op |-> "set_user", fault |-> "none"]

\* the part of C21 that holds: after a name that is not empty, and after a
\* nested builder was opened, every call fails its assertion
LateCallsFault ==
    (OnObject /\ (Nested \/ m_buffer[stack[1].m_item].user_size # 1)) =>
        \A user \in AuthorNames \cup UserNames : SetterFaults(user) = {"assert"}

\* the padding written right behind the role of member m, 0 for none
RolePadding(m) ==
    IF m + 2 <= Len(m_buffer) /\ m_buffer[m + 2].k = "padding"
    THEN m_buffer[m + 2].len ELSE 0

\* the bytes written for member m: the RelationMember, the role with its
\* zero byte, and the padding
MemberBytes(m) == m_buffer[m].len + m_buffer[m + 1].len + RolePadding(m)

\* the member list the member m is in
ListOf(m) == Latest({a \in 1..(m - 1) : m_buffer[a].k = "item"})

\* C22: in a relation-member list, every member starts at a multiple of the
\* alignment unit from the start of the list, and for every member that
\* add_member has completed, the member record is followed by the role and
\* its zero byte and by zero padding that bring the bytes of the member to
\* a multiple of the alignment unit, whatever the length of the role and
\* the number of members.
C22_EveryRolePadded ==
    \A m \in 1..Len(m_buffer) :
        m_buffer[m].k = "member" =>
            /\ (OffsetOf(m_buffer, m) - OffsetOf(m_buffer, ListOf(m))) % align_bytes = 0
            /\ m_buffer[m].role_size # 0 =>
                  /\ m_buffer[m + 1].k = "str"
                  /\ m_buffer[m + 1].len = m_buffer[m].role_size
                  /\ MemberBytes(m) = padded_length(SizeOf("RelationMember")
                                                       + m_buffer[m].role_size)
                  /\ MemberBytes(m) % align_bytes = 0

\* a member with the empty role, padded by 7 bytes, is followed by a member
\* with a role of 7 bytes, which needs no padding
C22_SecondMemberAfterPadding ==
    /\ TopType = "relation_member_list"
    /\ last_op = [op |-> "add_member", fault |-> "none"]
    /\ \E m \in MembersOf(stack[Top(stack)].m_item) :
          /\ m_buffer[m].role_size = 1
          /\ RolePadding(m) = 7
          /\ m + 3 \in MembersOf(stack[Top(stack)].m_item)
          /\ m_buffer[m + 3].role_size = 8
          /\ RolePadding(m + 3) = 0

\* the outermost builder builds an object or a changeset, set_user has not
\* returned on it and no builder was opened inside it
Fresh == OnObject /\ ~Named /\ ~Nested

\* what the overloads of set_user of the outermost builder leave for a name
SetterResults(user) ==
    IF OuterType = "changeset"
    THEN {ChangesetBuilder_set_user(m_buffer, Outer, user),
          ChangesetBuilder_set_user_string(m_buffer, Outer, user),
          ChangesetBuilder_set_user_length(m_buffer, Outer, user,
                                           string_size_type(StrSize(user)))}
    ELSE {set_user(m_buffer, Outer, user, StrSize(user)),
          set_user_length(m_buffer, Outer, user, string_size_type(StrSize(user)))}

\* the name stored behind the fixed fields of the outermost Item in buf
NameIn(buf) == buf[stack[1].m_item + 1].name

\* add_comment on the innermost builder, a discussion builder without a
\* pending comment, throws for a name longer than max_osm_string_length
\* and has then written no string
AddCommentChecksName ==
    (InDiscussion /\ Running /\ ~Pending) =>
        \A user \in UserNames \cup AuthorNames :
            LET r == add_comment(m_buffer, stack, 1, 1, user)
            IN  IF OverLong(strlen(user))
                THEN /\ r.fault = "OSM user name is too long"
                     /\ \A p \in (Len(m_buffer) + 1)..Len(r.buf) : r.buf[p].k # "str"
                ELSE /\ r.fault = "none"
                     /\ r.buf[Len(r.buf)].k = "str"
                     /\ r.buf[Len(r.buf)].s = CStr(user)

\* C23 as stated: add_comment of the discussion builder and every set_user
\* of the object builders and the changeset builder throw a length_error
\* for a name longer than max_osm_string_length and do not write the name.
C23_EveryEntryPointChecksNames ==
    /\ AddCommentChecksName
    /\ Fresh =>
          \A user \in {TooLong, Most, All} : \A r \in SetterResults(user) :
              r.fault = "OSM user name is too long" /\ NameIn(r.buf) = <<>>

\* C23: add_comment of the discussion builder throws a length_error for a
\* name longer than max_osm_string_length and does not write the name.
\* The set_user overloads of the object builders and of the changeset
\* builder never throw a length_error: on a builder on which set_user may
\* be called, a name longer than max_osm_string_length and shorter than
\* 2^16 - 1 is written as any other.
C23_OnlyAddCommentChecksNames ==
    /\ AddCommentChecksName
    /\ OnObject =>
          \A user \in UserNames \cup AuthorNames : \A r \in SetterResults(user) :
              r.fault \notin LengthErrors
    /\ Fresh =>
          \A user \in {TooLong, Most} : \A r \in SetterResults(user) :
              /\ r.fault = "none"
              /\ NameIn(r.buf) = [s |-> user, n |-> IntOfSize(StrSize(user))]

\* set_user has returned for a name of max_osm_string_length + 1 bytes and
\* the name is in the Item
C23_OverLongNameSet ==
    /\ OnObject
    /\ last_op = [op |-> "set_user", fault |-> "none"]
    /\ NameIn(m_buffer) = [s |-> TooLong, n |-> max_osm_string_length + 1]
    /\ m_buffer[stack[1].m_item].user_size = max_osm_string_length + 2

\* the Item of the outermost builder in buf
OuterItem(buf) == buf[stack[1].m_item]

\* r is what initialize_from_object leaves when it has returned with the
\* attributes and the author name of source in the area
Copies(r, source) ==
    /\ r.fault = "none"
    /\ OuterItem(r.buf).attrs =
           [id |-> IF source.type # "relation" THEN 2 * source.id
                   ELSE IF source.id < 0 THEN 2 * source.id - 1 ELSE 2 * source.id + 1,
            version |-> source.version, changeset |-> source.changeset,
            timestamp |-> source.timestamp, visible |-> source.visible,
            uid |-> source.uid]
    /\ NameIn(r.buf) = [s |-> CStr(source.user), n |-> IntOfSize(strlen(source.user))]
    /\ OuterItem(r.buf).user_size = IntOfSize(strlen(source.user)) + 1

\* the part of C24 that holds: on a fresh area builder the call copies the
\* attributes and the name, and after a nested builder was opened it fails
\* the assertion of set_user
InitializeCopies ==
    (Running /\ OuterType = "area") =>
        \A source \in SourceObjects :
            /\ Fresh => Copies(initialize_from_object(m_buffer, Outer, source), source)
            /\ Nested => initialize_from_object(m_buffer, Outer, source).fault = "assert"

\* C24: initialize_from_object on a fresh area builder sets the id to the
\* source's id in the id-space of areas and the version, changeset,
\* timestamp, visibility, user id and user name to the source's; it is
\* the one call that sets the name: once set_user or it has returned, or
\* a nested builder was opened on the area, it fails the assertion, and
\* after it has returned every call of set_user fails the assertion.
C24_InitializeIsTheOneNameCall ==
    /\ InitializeCopies
    /\ (Running /\ OuterType = "area") =>
          /\ Named =>
                \A source \in SourceObjects :
                    initialize_from_object(m_buffer, Outer, source).fault = "assert"
          /\ last_op = [op |-> "initialize_from_object", fault |-> "none"] =>
                \A user \in AuthorNames \cup UserNames : SetterFaults(user) = {"assert"}

\* an area was initialized from the relation of the user without name, and
\* set_user has returned after that
C24_NameSetAfterInitialize ==
    /\ Running /\ OuterType = "area"
    /\ OuterItem(m_buffer).attrs.id = -15
    /\ m_buffer[stack[1].m_item + 1].calls = 2
    /\ NameIn(m_buffer).n > 0
    /\ last_op = [op |-> "set_user", fault |-> "none"]

\* r is a call that has thrown a length_error and left the buffer as it
\* is: no byte more, and every content-length as before
ThrownUntouched(r) ==
    /\ r.fault \in {"OSM tag key is too long", "OSM tag value is too long"}
    /\ Written(r.buf) = Written(m_buffer)
    /\ \A j \in 1..Len(stack) : size(r.buf, stack, j) = size(m_buffer, stack, j)
    /\ r.buf = m_buffer

\* C25: add_tag checks the key and the value before it writes either.
\* Whenever add_tag with strings or lengths throws a length_error, for the
\* key or, the key being short enough, for the value, the buffer holds
\* not one byte more than before the call, and the content-length of the
\* tag list and of each of its ancestors is what it was.
C25_RefusedTagWritesNothing ==
    TopType = "tag_list" =>
        \A tag \in Tags \cup TagsWithZero :
            /\ (OverLong(strlen(tag[1])) \/ OverLong(strlen(tag[2]))) =>
                   ThrownUntouched(add_tag(m_buffer, stack, tag[1], tag[2]))
            /\ (OverLong(StrSize(tag[1])) \/ OverLong(StrSize(tag[2]))) =>
                   ThrownUntouched(add_tag_length(m_buffer, stack, tag[1], tag[2]))

\* add_tag has thrown for the value, in a tag list inside an object that
\* holds a tag already
C25_ValueRefusedInNestedList ==
    /\ TopType = "tag_list"
    /\ Len(stack) = 2
    /\ last_op = [op |-> "add_tag", fault |-> "OSM tag value is too long"]
    /\ m_buffer[stack[2].m_item].added # <<>>
    /\ m_buffer[Len(m_buffer)].k = "str"

(***************************************************************************)
(* Index construction: C26, C27                                            *)
(***************************************************************************)
\* construction has ended: the table was returned (and may be destroyed
\* since), or the exception has left the constructor
Ended == pc \in {"ready", "failed", "destroyed"}

\* a call of digest_and_skip_block that returns has moved the offset from
\* the start of a block to its end: by 4, the header length and the
\* datasize, which is 1 at least
StepGrows ==
    (pc \in {"header", "data"} /\ pc' = "data") =>
        \E k \in 1..Len(file.blocks) :
            /\ file.blocks[k].start = offset
            /\ file.blocks[k].datasize >= 1
            /\ offset' = offset + 4 + PrefixLow(file.blocks[k].pre) + file.blocks[k].datasize
            /\ offset' > offset

\* C26: construction ends on every file.  Every call of
\* digest_and_skip_block throws or moves the offset forward by 4 + header
\* length + datasize, datasize being 1 at least; so after finitely many
\* calls the offset is at or past the file size, and the constructor
\* returns the table or throws.
C26_ConstructionEnds ==
    /\ [][StepGrows]_vars
    /\ <>Ended
    /\ [](pc = "ready" => offset >= file_size)

\* construction has returned after three calls of digest_and_skip_block,
\* with the offset at the end of the file
C26_EndedAfterThreeBlocks ==
    /\ pc = "ready"
    /\ Digested = 3
    /\ offset = file.size
    /\ offset = SumBlockBytes(file.blocks, 3)

(***************************************************************************)
(* Index construction: C27                                                 *)
(***************************************************************************)
\* the end of the last block that lies wholly in the file
RECURSIVE EndOfComplete(_, _)
EndOfComplete(f, k) ==
    IF k > Len(f.blocks) \/ BlockStart(f.blocks, k + 1) > f.size
    THEN BlockStart(f.blocks, k)
    ELSE EndOfComplete(f, k + 1)

\* the file has bytes after its last complete block: a part of a block, or
\* bytes that belong to no block
TrailingBytes(f) == EndOfComplete(f, 1) < f.size

\* the byte range [file_offset, file_offset + datasize) of entry k
RangeStart(k) == m_block_starts[k].file_offset

RangeEnd(k) == m_block_starts[k].file_offset + m_block_starts[k].datasize

\* C27: whenever construction succeeds, the final logical offset equals the
\* file size, the entries' file_offsets are strictly increasing, and the byte
\* ranges [file_offset, file_offset + datasize) of all entries are pairwise
\* disjoint and lie within the file; a file with trailing bytes after the
\* last complete block never yields a successful construction.
C27_BlocksTileTheFile ==
    /\ pc = "ready" =>
         /\ offset = file.size
         /\ \A j, k \in 1..Len(m_block_starts) :
              j < k => /\ RangeStart(j) < RangeStart(k)
                       /\ RangeEnd(j) <= RangeStart(k)
         /\ \A k \in 1..Len(m_block_starts) :
              /\ 0 <= RangeStart(k)
              /\ RangeStart(k) < RangeEnd(k)
              /\ RangeEnd(k) <= file.size
    /\ TrailingBytes(file) => pc \notin {"ready", "destroyed"}

\* construction has failed on a file of a header block and two data blocks,
\* all three digested, with two bytes after the last block
C27_FailedOnTrailingBytes ==
    /\ pc = "failed"
    /\ Len(file.blocks) = 3
    /\ Digested = 3
    /\ file.size = TotalLen(file.blocks) + 2
    /\ err = ErrEofSize

(***************************************************************************)
(* On-demand decode, one caller: C28                                       *)
(***************************************************************************)
\* what the decoder makes of the datasize bytes at the entry's file_offset
DecodedAt(f, block_start, read_metadata) ==
    PBFDataBlobDecoder(BodyAt(f, block_start.file_offset, block_start.datasize),
                       EntityBitsAll, read_metadata)

\* C28: in sequential use, the bytes handed to the decoder by
\* get_parsed_block(i) are exactly the datasize bytes of the file starting at
\* entry i's file_offset, wherever construction or earlier calls left the
\* cursor: the call fails with "unexpected EOF" only if the file does not
\* hold those bytes, otherwise it leaves the cursor behind them and its
\* outcome is what the decoder makes of them, so it does not depend on the
\* calls before it.
C28_ReadsOwnRangeWhereverCursorIs ==
    [][CallStep =>
         LET i == result'.block_index
             e == m_block_starts[i + 1]
             dec == DecodedAt(file, e, result'.read_metadata)
         IN  /\ result'.err = ErrEofBlock <=> RangeEnd(i + 1) > file.size
             /\ result'.err # ErrEofBlock =>
                  /\ m_fd'.pos = RangeEnd(i + 1)
                  /\ result'.err = dec.err
                  /\ result'.buffer = dec.buffer]_vars

\* the call on the first entry has returned its block of one node after a
\* call on the second entry had returned: the cursor was behind the second
\* block and is now behind the first
C28_FirstBlockAfterSecond ==
    /\ result.called
    /\ result.block_index = 0
    /\ result.err = NoError
    /\ KindsAndIds(result.buffer) = <<Item("node", 0)>>
    /\ Len(m_block_starts) = 2
    /\ Resolved(m_block_starts[2])
    /\ m_fd.pos = RangeEnd(1)

(***************************************************************************)
(* The author name in the Item: C29, C30                                   *)
(***************************************************************************)
\* names of 5, 6 and 8 bytes: around the slots of 5 and of 7 bytes
Five == Str("five", SizeT(0, 5))

Six == Str("six", SizeT(0, 6))

Eight == Str("eight", SizeT(0, 8))

LayoutNames == AuthorNames \cup {Five, Six, Eight}

\* where set_user copies the name to, from the start of the Item: behind
\* the fixed fields and the size field of an object (data() + sizeof(T) +
\* sizeof(string_size_type)), behind the fixed fields of a changeset, which
\* hold its size field (data() + sizeof(Changeset))
NameOffset(T) ==
    IF T = "changeset" THEN SizeOf(T) ELSE SizeOf(T) + SizeOfStringSize

\* what a call of set_user that returned for a name of L bytes has left of
\* the outermost Item: the name is in it; if the name and its zero byte fit
\* the bytes the Item had, nothing was reserved and the size is as it was,
\* else the Item and the buffer grew by the padded overflow; the size is at
\* least `header` + L + 1 and a multiple of align_bytes; the byte after
\* the name is one of the zero bytes written behind the fixed fields
Layout(r, user, header) ==
    LET i == stack[1].m_item
        T == m_buffer[i].type
        L == IntOfSize(StrSize(user))
        before == m_buffer[i].size
        after == r.buf[i].size
        fits == NameOffset(T) + L + 1 <= before
        overflow == padded_length(NameOffset(T) + L + 1 - before)
    IN  /\ NameIn(r.buf).s \in {user, CStr(user)}
        /\ NameIn(r.buf).n = L
        /\ fits => /\ after = before
                   /\ Len(r.buf) = Len(m_buffer)
                   /\ Written(r.buf) = Written(m_buffer)
        /\ ~fits => /\ after = before + overflow
                    /\ Written(r.buf) = Written(m_buffer) + overflow
        /\ after >= header + L + 1
        /\ after % align_bytes = 0
        /\ r.buf[i + 1].len > NameOffset(T) - SizeOf(T) + L

\* C29 as stated: after set_user with a name of any accepted length L the
\* name and its zero byte lie in the Item, a name that fits the reserved
\* slot causes no reservation and leaves the size unchanged, a longer name
\* extends the Item by the padded overflow, the size is at least fixed
\* header + size field + L + 1 and a multiple of the alignment unit, and
\* the byte after the name is zero.
C29_SizeCoversHeaderAndSizeField ==
    OnObject =>
        \A user \in LayoutNames : \A r \in SetterResults(user) :
            r.fault = "none" =>
                Layout(r, user, SizeOf(OuterType) + SizeOfStringSize)

\* C29: the same, with the size at least the offset of the name in the
\* Item + L + 1: fixed header + size field + L + 1 on an object builder,
\* fixed header + L + 1 on a changeset builder, whose size field is one of
\* the fixed fields.
C29_NameAndZeroInsideItem ==
    OnObject =>
        \A user \in LayoutNames : \A r \in SetterResults(user) :
            r.fault = "none" => Layout(r, user, NameOffset(OuterType))

\* set_user has returned on a changeset builder for a name of 7 bytes: the
\* name and its zero byte fill the 8 bytes reserved, and the Item has the
\* size it had
C29_NameFillsChangesetSlot ==
    /\ OuterType = "changeset"
    /\ last_op = [op |-> "set_user", fault |-> "none"]
    /\ NameIn(m_buffer) = [s |-> Word, n |-> 7]
    /\ m_buffer[stack[1].m_item].size
         = SizeOf("changeset") + ChangesetBuilder_min_size_for_user
    /\ m_buffer[stack[1].m_item + 1].len = ChangesetBuilder_min_size_for_user

\* the user size stored in the outermost Item of buf
UserSizeIn(buf) == buf[stack[1].m_item].user_size

\* every name shorter than 2^16 - 1 that a call of set_user returns for is
\* stored with the user size length + 1
DocumentedNamesKeepSize ==
    OnObject =>
        \A user \in LayoutNames : \A r \in SetterResults(user) :
            (r.fault = "none" /\ IntOfSize(StrSize(user)) < MaxStringSize) =>
                UserSizeIn(r.buf) = IntOfSize(StrSize(user)) + 1

\* the overloads that assert length < max: those of the object builders
\* that take the name alone, and that of the changeset builder for a
\* std::string
CheckedSetterResults(user) ==
    IF OuterType = "changeset"
    THEN {ChangesetBuilder_set_user_string(m_buffer, Outer, user)}
    ELSE {set_user(m_buffer, Outer, user, StrSize(user))}

\* the overloads that assert length < max return for no name of 2^16 - 1
\* bytes
CheckedSettersKeepPrecondition ==
    OnObject =>
        \A user \in LayoutNames : \A r \in CheckedSetterResults(user) :
            r.fault = "none" => IntOfSize(StrSize(user)) < MaxStringSize

\* C30: for every author name that a set_user overload of an object builder
\* or of the changeset builder accepts, the stored 16-bit user size equals
\* length + 1 as an integer: it never wraps around modulo 2^16.
C30_UserSizeNeverWraps ==
    OnObject =>
        \A user \in LayoutNames : \A r \in SetterResults(user) :
            r.fault = "none" => UserSizeIn(r.buf) = IntOfSize(StrSize(user)) + 1

\* set_user has returned on a changeset builder for a name of 2^16 - 1
\* bytes, and the user size stored is 0
C30_UserSizeWrapped ==
    /\ OuterType = "changeset"
    /\ last_op = [op |-> "set_user", fault |-> "none"]
    /\ NameIn(m_buffer).n = MaxStringSize
    /\ UserSizeIn(m_buffer) = 0

(***************************************************************************)
(* The sizes stored with a text, an author name and a role: C31            *)
(***************************************************************************)
\* the lengths of texts tried on the check and the conversion of add_text:
\* 0, 7, around 2^16, 2^31, and around 2^32 - 1, the greatest
\* changeset_comment_size_type; 2^32 + 7 has the low 32 bits of 7
TextLengths ==
    {SizeT(0, 0), SizeT(0, 7), SizeT(0, 65535), SizeT(1, 0), SizeT(32768, 0),
     SizeT(65535, 65533), SizeT(65535, 65534), SizeT(65535, 65535),
     SizeT(65536, 0), SizeT(65536, 7), SizeT(131071, 65535)}

\* length + 1, the text with its zero byte, is a changeset_comment_size_type
FitsWithZero(length) ==
    length[1] < 65536 /\ ~(length[1] = 65535 /\ length[2] = 65535)

\* length + 1 as a number, in two halves
LengthPlusOne(length) ==
    IF length[2] < 65535 THEN SizeT(length[1], length[2] + 1) ELSE SizeT(length[1] + 1, 0)

\* the check and the conversion of add_text on a length: refused exactly
\* when length + 1 does not fit, and what is stored for a length let
\* through is length + 1
TextSizeKept(length) ==
    /\ TextTooLong(length) <=> ~FitsWithZero(length)
    /\ ~TextTooLong(length) =>
          PlusOne32(changeset_comment_size_type(length)) = LengthPlusOne(length)

\* C31: add_comment_text throws a length_error for every text whose length
\* plus the zero byte is not a changeset_comment_size_type, and for every
\* text it accepts the text size stored in the comment is length + 1, not
\* wrapped; the user size that add_comment stores in a comment and the role
\* size that add_member stores in a member are length + 1 for every length
\* they accept.
C31_StoredSizesAreLengthPlusOne ==
    /\ \A length \in TextLengths : TextSizeKept(length)
    /\ (InDiscussion /\ Running /\ Pending) =>
          \A text \in Texts :
             LET r == add_comment_text(m_buffer, stack, text)
                 comment == stack[Top(stack)].m_comment
             IN  IF FitsWithZero(StrSize(text))
                 THEN /\ r.fault = "none"
                      /\ r.buf[comment].text_size = LengthPlusOne(StrSize(text))
                 ELSE /\ r.fault = "OSM changeset comment is too long"
                      /\ r.buf[comment].text_size = SizeT(0, 0)
    /\ (InDiscussion /\ Running /\ ~Pending) =>
          \A user \in UserNames \cup AuthorNames :
             LET r == add_comment(m_buffer, stack, 1, 1, user)
             IN  r.fault = "none" =>
                    r.buf[Len(m_buffer) + 1].user_size = IntOfSize(strlen(user)) + 1
    /\ (Running /\ TopType = "relation_member_list") =>
          \A role \in Roles \cup AuthorNames :
             LET r == add_member(m_buffer, stack, "node", 1, role, 0)
             IN  r.fault = "none" =>
                    r.buf[Len(m_buffer) + 1].role_size = IntOfSize(StrSize(role)) + 1

\* add_comment_text has returned for a text of 7 bytes on a comment whose
\* author name has max_osm_string_length bytes: the sizes stored are 8 and
\* max_osm_string_length + 1
C31_TextAfterLongestName ==
    /\ last_op = [op |-> "add_comment_text", fault |-> "none"]
    /\ \E c \in 1..Len(m_buffer) :
         /\ m_buffer[c].k = "comment"
         /\ m_buffer[c].user_size = max_osm_string_length + 1
         /\ m_buffer[c].text_size = SizeT(0, 8)
         /\ c + 2 <= Len(m_buffer)
         /\ m_buffer[c + 1].s = Longest
         /\ m_buffer[c + 2].s = Word

(***************************************************************************)
(* The file handle of the table: C32                                       *)
(***************************************************************************)
\* a step that closes the handle
Closes == m_fd.open /\ ~m_fd'.open

\* the handle is opened by the constructor alone and closed by the
\* destructor alone, which runs on a table whose construction returned, and
\* once: after it the handle stays closed
ClosedOnceByDestructor ==
    /\ [][Closes => (pc = "ready" /\ pc' = "destroyed")]_vars
    /\ [][(~m_fd.open /\ m_fd'.open) => (pc = "unopened" /\ pc' = "header")]_vars
    /\ [](pc = "destroyed" => ~m_fd.open)
    /\ [](pc \in {"header", "data", "ready"} => m_fd.open)

\* C32: every file handle opened by table construction is closed exactly
\* once: by the destructor when construction succeeded, and also when
\* construction fails with a format error after the file was opened: no
\* handle is open after a failed construction.
C32_NoHandleOpenAfterEnd ==
    /\ ClosedOnceByDestructor
    /\ [](pc = "failed" => ~m_fd.open)

\* construction has failed on the type of the second data block, after the
\* header block and a data block were digested, and the handle is open
C32_HandleOpenAfterFailure ==
    /\ pc = "failed"
    /\ err = ErrType
    /\ Digested = 2
    /\ m_fd.open
    /\ m_block_starts = <<>>

====
